---- MODULE Spec2Model ----
(***************************************************************************)
(* Model of the comparison core of src/compare.py: text normalisation,     *)
(* similarity scoring, best-match search and the aggregation loop of       *)
(* compare_pdfs_and_build_pairs (Spec), and of the helper functions        *)
(* similarity_score (SpecSim), normalize_text (SpecNorm),                  *)
(* word_level_diff_html (SpecDiff) and pdf_content_accuracy (SpecContent)  *)
(* called on their own.                                                    *)
(*                                                                         *)
(* Texts are sequences of code points (Python str).  A similarity score    *)
(* is the rational 200*lcs/(len1+len2) that rapidfuzz computes in floating *)
(* point; it is kept exactly, as a pair <<numerator, denominator>> in      *)
(* lowest terms, so that equal scores are equal values.                    *)
(***************************************************************************)
EXTENDS Integers, Sequences, FiniteSets, TLC

\* The state of one run of compare_pdfs_and_build_pairs.
VARIABLES orig_lines, gen_lines, pc, i, score, o, rows,
          total_chars, total_diff_chars, matched_lines,
          char_accuracy, line_accuracy, summary

\* The state of one call of a helper function on its own: its arguments, a
\* derived argument of a second call, the two return values and the position.
VARIABLES arg_a, arg_b, arg_c, ret, ret2, fpc

cvars == <<orig_lines, gen_lines, pc, i, score, o, rows,
           total_chars, total_diff_chars, matched_lines,
           char_accuracy, line_accuracy, summary>>

fvars == <<arg_a, arg_b, arg_c, ret, ret2, fpc>>

vars == <<cvars, fvars>>

-----------------------------------------------------------------------------
(* Bounds of the model and constants of the program *)

MaxOrigLines == 2
MaxGenLines == 3

similarity_threshold == 75
y_tolerance == 12
page_window == 1
PageSlack == 5

\* Python's None in a nullable field; a present value v is held as <<v>>.
None == <<>>

Some(v) == <<v>>

-----------------------------------------------------------------------------
(* Arithmetic helpers *)

Abs(x) == IF x < 0 THEN -x ELSE x

Max2(x, y) == IF x >= y THEN x ELSE y

Min2(x, y) == IF x <= y THEN x ELSE y

RECURSIVE Gcd(_, _)
Gcd(x, y) == IF y = 0 THEN x ELSE Gcd(y, x % y)

\* The rational n/d (d > 0, n >= 0) in lowest terms.
Ratio(n, d) == LET g == Gcd(n, d) IN <<n \div g, d \div g>>

\* Comparison of two rationals (Python float >=, >, ==).
GE(s, t) == s[1] * t[2] >= t[1] * s[2]

GT(s, t) == s[1] * t[2] > t[1] * s[2]

\* s >= k for an integer k.
GEInt(s, k) == s[1] >= k * s[2]

-----------------------------------------------------------------------------
(* Text: Python str as a sequence of code points *)

\* Code points str.split() and str.strip() treat as whitespace (Latin-1 range).
Whitespace == {9, 10, 11, 12, 13, 28, 29, 30, 31, 32, 133, 160}

IsSpace(c) == c \in Whitespace

\* str.lower() on the Latin letters A-Z.
Lower(c) == IF c >= 65 /\ c <= 90 THEN c + 32 ELSE c

\* Faulty variant of LowerStr: the text keeps its case.
SameStr(t) == t

LowerStr(t) == [k \in 1..Len(t) |-> Lower(t[k])]

\* t.replace(NBSP, " "): U+00A0 becomes U+0020.
ReplaceNbsp(t) == [k \in 1..Len(t) |-> IF t[k] = 160 THEN 32 ELSE t[k]]

RECURSIVE SplitFrom(_, _, _, _)
\* Scan t from position k; cur is the token being read, acc the tokens read.
SplitFrom(t, k, cur, acc) ==
  IF k > Len(t)
    THEN IF cur = <<>> THEN acc ELSE Append(acc, cur)
    ELSE IF IsSpace(t[k])
           THEN SplitFrom(t, k + 1, <<>>, IF cur = <<>> THEN acc ELSE Append(acc, cur))
           ELSE SplitFrom(t, k + 1, Append(cur, t[k]), acc)

\* t.split(): the maximal runs of non-whitespace, in order.
Split(t) == SplitFrom(t, 1, <<>>, <<>>)

RECURSIVE Join(_)
\* " ".join(tokens)
Join(tokens) ==
  IF tokens = <<>> THEN <<>>
  ELSE IF Len(tokens) = 1 THEN tokens[1]
  ELSE tokens[1] \o <<32>> \o Join(Tail(tokens))

RECURSIVE StripLeft(_)
StripLeft(t) == IF t # <<>> /\ IsSpace(t[1]) THEN StripLeft(Tail(t)) ELSE t

RECURSIVE StripRight(_)
StripRight(t) ==
  IF t # <<>> /\ IsSpace(t[Len(t)]) THEN StripRight(SubSeq(t, 1, Len(t) - 1)) ELSE t

\* t.strip()
Strip(t) == StripRight(StripLeft(t))

\* normalize_text(t); the absent text (None) and the empty text are both <<>>.
normalize_text(t) ==
  IF t = <<>> THEN <<>>
  ELSE LowerStr(Strip(Join(Split(ReplaceNbsp(t)))))

-----------------------------------------------------------------------------
(* rapidfuzz: Levenshtein distance, Indel similarity, token_sort_ratio *)

RECURSIVE LexLess(_, _)
\* Python's str ordering: lexicographic by code point.
LexLess(a, b) ==
  IF b = <<>> THEN FALSE
  ELSE IF a = <<>> THEN TRUE
  ELSE IF a[1] # b[1] THEN a[1] < b[1]
  ELSE LexLess(Tail(a), Tail(b))

RECURSIVE Insert(_, _)
Insert(tok, sorted) ==
  IF sorted = <<>> THEN <<tok>>
  ELSE IF LexLess(tok, sorted[1]) THEN <<tok>> \o sorted
  ELSE <<sorted[1]>> \o Insert(tok, Tail(sorted))

\* Faulty variant of Sorted: the tokens keep their order.
Unsorted(tokens) == tokens

RECURSIVE Sorted(_)
\* sorted(tokens)
Sorted(tokens) ==
  IF tokens = <<>> THEN <<>>
  ELSE Insert(tokens[Len(tokens)], Sorted(SubSeq(tokens, 1, Len(tokens) - 1)))

RECURSIVE LcsRow(_, _, _, _, _)
\* One row of the LCS table: prev is the row of the shorter prefix of a, c the
\* next code point of a; cells are indexed 1..Len(b)+1.
LcsRow(prev, c, b, j, cur) ==
  IF j > Len(b) THEN cur
  ELSE LcsRow(prev, c, b, j + 1,
              Append(cur, IF c = b[j] THEN prev[j] + 1 ELSE Max2(prev[j + 1], cur[j])))

RECURSIVE LcsRows(_, _, _, _)
LcsRows(a, b, k, prev) ==
  IF k > Len(a) THEN prev[Len(b) + 1]
  ELSE LcsRows(a, b, k + 1, LcsRow(prev, a[k], b, 1, <<0>>))

\* Length of a longest common subsequence of a and b.
LcsLen(a, b) == LcsRows(a, b, 1, [j \in 1..(Len(b) + 1) |-> 0])

RECURSIVE LevRow(_, _, _, _, _)
\* One row of the edit-distance table (Wagner-Fischer).
LevRow(prev, c, b, j, cur) ==
  IF j > Len(b) THEN cur
  ELSE LevRow(prev, c, b, j + 1,
              Append(cur, Min2(Min2(prev[j + 1] + 1, cur[j] + 1),
                               prev[j] + (IF c = b[j] THEN 0 ELSE 1))))

RECURSIVE LevRows(_, _, _, _)
LevRows(a, b, k, prev) ==
  IF k > Len(a) THEN prev[Len(b) + 1]
  ELSE LevRows(a, b, k + 1, LevRow(prev, a[k], b, 1, <<prev[1] + 1>>))

\* Faulty variant of Levenshtein: the insert/delete-only (Indel) distance.
IndelDistance(a, b) == Len(a) + Len(b) - 2 * LcsLen(a, b)

\* distance.Levenshtein.distance(a, b): unit-cost insert, delete, substitute.
Levenshtein(a, b) == LevRows(a, b, 1, [j \in 1..(Len(b) + 1) |-> j - 1])

\* Faulty variant of FuzzRatio: normalised by the length of the first text only.
FuzzRatioLeft(a, b) ==
  IF Len(a) + Len(b) = 0 THEN <<100, 1>>
  ELSE IF Len(a) = 0 THEN <<0, 1>>
  ELSE Ratio(100 * LcsLen(a, b), Len(a))

\* fuzz.ratio(a, b) = 100 * (1 - indel(a, b)/(len a + len b)), indel = len a + len b - 2 lcs.
FuzzRatio(a, b) ==
  IF Len(a) + Len(b) = 0 THEN <<100, 1>>
  ELSE Ratio(200 * LcsLen(a, b), Len(a) + Len(b))

\* fuzz.token_sort_ratio(a, b): ratio of the sorted, space-joined tokens.
token_sort_ratio(a, b) == FuzzRatio(Join(Sorted(Split(a))), Join(Sorted(Split(b))))

\* Faulty variant of similarity_score: an empty side always scores 100.
similarity_score_empty_full(a, b) ==
  IF a = <<>> \/ b = <<>> THEN <<100, 1>>
  ELSE token_sort_ratio(a, b)

\* Faulty variant of similarity_score: an empty side always scores 0.
similarity_score_empty_zero(a, b) ==
  IF a = <<>> \/ b = <<>> THEN <<0, 1>>
  ELSE token_sort_ratio(a, b)

similarity_score(a, b) ==
  IF a = <<>> /\ b = <<>> THEN <<100, 1>>
  ELSE IF a = <<>> \/ b = <<>> THEN <<0, 1>>
  ELSE token_sort_ratio(a, b)

-----------------------------------------------------------------------------
(* find_best_match *)

\* dict.get(key, ''): the field, or the empty text when the key is absent.
Get(line, key) == IF key \in DOMAIN line THEN line[key] ELSE <<>>

\* The pair (s, o) appended for the k-th original line; o is kept as its index.
Scored(gen_line, olines, k) ==
  <<similarity_score(Get(gen_line, "norm"), Get(olines[k], "norm")), k>>

\* Neither `continue` of the first loop fires for the original line ol.
Admissible(gen_line, ol, yTol, pageWin) ==
  /\ ~(Abs(ol.page - gen_line.page) > pageWin)
  /\ ~(Abs(ol.y0 - gen_line.y0) > yTol + PageSlack * Abs(ol.page - gen_line.page))

RECURSIVE SpatialLoop(_, _, _, _, _, _)
\* The first loop over orig_lines, from its k-th line on.
SpatialLoop(gen_line, olines, yTol, pageWin, k, candidates) ==
  IF k > Len(olines) THEN candidates
  ELSE SpatialLoop(gen_line, olines, yTol, pageWin, k + 1,
                   IF Admissible(gen_line, olines[k], yTol, pageWin)
                     THEN Append(candidates, Scored(gen_line, olines, k))
                     ELSE candidates)

RECURSIVE FallbackLoopWindowed(_, _, _, _)
\* Faulty variant of FallbackLoop: the fallback keeps the page-window test.
FallbackLoopWindowed(gen_line, olines, k, candidates) ==
  IF k > Len(olines) THEN candidates
  ELSE FallbackLoopWindowed(gen_line, olines, k + 1,
         IF Abs(olines[k].page - gen_line.page) > page_window
           THEN candidates
           ELSE Append(candidates, Scored(gen_line, olines, k)))

RECURSIVE FallbackLoop(_, _, _, _)
\* The second loop, run when the first kept nothing: every line is scored.
FallbackLoop(gen_line, olines, k, candidates) ==
  IF k > Len(olines) THEN candidates
  ELSE FallbackLoop(gen_line, olines, k + 1, Append(candidates, Scored(gen_line, olines, k)))

RECURSIVE MaxFromLast(_, _, _)
\* Faulty variant of MaxFrom: an equal key also replaces the running maximum,
\* so the last of several maximal candidates wins.
MaxFromLast(cands, k, best) ==
  IF k > Len(cands) THEN best
  ELSE MaxFromLast(cands, k + 1, IF GE(cands[k][1], best[1]) THEN cands[k] ELSE best)

RECURSIVE MaxFrom(_, _, _)
\* max(candidates, key=score): the running maximum is replaced only by a
\* strictly greater key.
MaxFrom(cands, k, best) ==
  IF k > Len(cands) THEN best
  ELSE MaxFrom(cands, k + 1, IF GT(cands[k][1], best[1]) THEN cands[k] ELSE best)

MaxByScore(cands) == MaxFrom(cands, 2, cands[1])

\* Faulty variant of find_best_match: no spatial filter, every line is scored.
find_best_match_global(gen_line, olines, yTol, pageWin) ==
  LET candidates == FallbackLoop(gen_line, olines, 1, <<>>)
  IN IF candidates # <<>> THEN MaxByScore(candidates) ELSE <<<<0, 1>>, 0>>

\* Faulty variant of find_best_match: no fallback when the filter keeps nothing.
find_best_match_no_fallback(gen_line, olines, yTol, pageWin) ==
  LET candidates == SpatialLoop(gen_line, olines, yTol, pageWin, 1, <<>>)
  IN IF candidates # <<>> THEN MaxByScore(candidates) ELSE <<<<0, 1>>, 0>>

\* Faulty variant of find_best_match: a best score of 0 returns no line.
find_best_match_zero_none(gen_line, olines, yTol, pageWin) ==
  LET spatial == SpatialLoop(gen_line, olines, yTol, pageWin, 1, <<>>)
      candidates == IF spatial = <<>> THEN FallbackLoop(gen_line, olines, 1, <<>>)
                    ELSE spatial
  IN IF candidates # <<>> /\ GT(MaxByScore(candidates)[1], <<0, 1>>)
       THEN MaxByScore(candidates) ELSE <<<<0, 1>>, 0>>

\* Returns <<score, index of the original line>>, index 0 standing for None.
find_best_match(gen_line, olines, yTol, pageWin) ==
  LET spatial == SpatialLoop(gen_line, olines, yTol, pageWin, 1, <<>>)
      candidates == IF spatial = <<>> THEN FallbackLoop(gen_line, olines, 1, <<>>)
                    ELSE spatial
  IN IF candidates # <<>> THEN MaxByScore(candidates) ELSE <<<<0, 1>>, 0>>

-----------------------------------------------------------------------------
(* Extracted line sets handed to the comparison *)

\* "a b", "B<NBSP> a c", "c"
TextAB == <<97, 32, 98>>

TextBAC == <<66, 160, 32, 97, 32, 99>>

TextC == <<99>>

\* Original lines: on the page of a generated line at y0 = 0 a line at 12 is
\* within y_tolerance and one at 13 is not; on the next page a line at 13 is
\* within the widened tolerance.
OrigPool ==
  {l \in [page : {1, 2}, y0 : {12, 13}, text : {TextAB, TextBAC}] :
     l.page = 2 => l.y0 = 13}

\* Generated lines: page 3 is outside the page window of page 1.
GenPool ==
  {l \in [page : {1, 3}, y0 : {0}, text : {TextAB, TextC}] :
     l.page = 3 => l.text = TextAB}

SeqsUpTo(S, n) == UNION {[1..k -> S] : k \in 0..n}

\* extract_lines_with_bbox emits the lines page after page.
PageOrdered(ls) == \A k \in 1..(Len(ls) - 1) : ls[k].page <= ls[k + 1].page

\* line_counter: the position of the k-th line among the lines of its page.
LineNo(ls, k) == Cardinality({j \in 1..k : ls[j].page = ls[k].page})

Numbered(ls) ==
  [k \in 1..Len(ls) |->
     [page |-> ls[k].page, line_no |-> LineNo(ls, k), text |-> ls[k].text, y0 |-> ls[k].y0]]

Extracted(pool, n) == {Numbered(ls) : ls \in {q \in SeqsUpTo(pool, n) : PageOrdered(q)}}

\* o['norm'] = normalize_text(o['text'])
WithNorm(ls) ==
  [k \in 1..Len(ls) |->
     [page |-> ls[k].page, line_no |-> ls[k].line_no, text |-> ls[k].text,
      y0 |-> ls[k].y0, norm |-> normalize_text(ls[k].text)]]

-----------------------------------------------------------------------------
(* compare_pdfs_and_build_pairs *)

\* Faulty variant of Round4: truncation to four decimals.
Round4Truncate(x) == Ratio((x[1] * 10000) \div x[2], 10000)

\* round(x, 4), as a rational in ten-thousandths (an exact tie goes to even).
Round4(x) ==
  LET n == x[1] * 10000
      f == n \div x[2]
      r == n % x[2]
      k == IF 2 * r > x[2] THEN f + 1
           ELSE IF 2 * r < x[2] THEN f
           ELSE IF f % 2 = 0 THEN f ELSE f + 1
  IN Ratio(k, 10000)

\* Faulty variant of IsMatched: the threshold itself does not count.
IsMatchedStrict(sc, threshold) == sc[1] > threshold * sc[2]

\* matched = score >= similarity_threshold
IsMatched(sc, threshold) == GEInt(sc, threshold)

\* Faulty variant of PairChars: the original text's length is left out.
PairCharsGenOnly(gtext, otext) == Max2(Len(gtext), 1)

\* The amount a row with a counterpart adds to total_chars.
PairChars(gtext, otext) == Max2(Max2(Len(gtext), Len(otext)), 1)

\* The amount a no_match row adds to total_chars.
LoneChars(gtext) == Max2(Len(gtext), 1)

\* Faulty variant of CharAccuracy: nothing to compare counts as no difference.
CharAccuracyEmptyPerfect(diff, total) ==
  IF total # 0 THEN Ratio(total - diff, total) ELSE <<1, 1>>

\* char_accuracy = 1.0 - (total_diff_chars / total_chars) if total_chars else 0.0
CharAccuracy(diff, total) == IF total # 0 THEN Ratio(total - diff, total) ELSE <<0, 1>>

\* Faulty variant of LineAccuracy: the share of lines that did not match.
LineErrorRate(ml, n) == IF n # 0 THEN Ratio(n - ml, n) ELSE <<0, 1>>

\* line_accuracy = matched_lines / len(gen_lines) if gen_lines else 0.0
LineAccuracy(ml, n) == IF n # 0 THEN Ratio(ml, n) ELSE <<0, 1>>

\* Faulty variant of ErrorType: a low score is reported as "no_match".
ErrorTypeNoMatch(matched) == IF matched THEN "match" ELSE "no_match"

\* error_type = "match" if matched else "mismatch"
ErrorType(matched) == IF matched THEN "match" ELSE "mismatch"

\* Faulty variant of MatchedRowOf: the row is numbered after the original line.
MatchedRowOfOrigNo(g, ol, sc, ed, matched) ==
  [gen_page |-> ol.page, gen_line_no |-> ol.line_no, gen_text |-> g.text,
   orig_page |-> Some(ol.page), orig_line_no |-> Some(ol.line_no),
   orig_text |-> Some(ol.text), similarity |-> sc, char_edit_distance |-> ed,
   y_delta |-> Some(g.y0 - ol.y0),
   matched |-> matched, error_type |-> ErrorType(matched)]

\* The dict appended in the `if o:` branch (the two html renderings, which no
\* total reads, are not carried).
MatchedRowOf(g, ol, sc, ed, matched) ==
  [gen_page |-> g.page, gen_line_no |-> g.line_no, gen_text |-> g.text,
   orig_page |-> Some(ol.page), orig_line_no |-> Some(ol.line_no),
   orig_text |-> Some(ol.text), similarity |-> sc, char_edit_distance |-> ed,
   y_delta |-> Some(g.y0 - ol.y0),
   matched |-> matched, error_type |-> ErrorType(matched)]

\* The dict appended in the `else` branch.
NoMatchRowOf(g) ==
  [gen_page |-> g.page, gen_line_no |-> g.line_no, gen_text |-> g.text,
   orig_page |-> None, orig_line_no |-> None, orig_text |-> None,
   similarity |-> <<0, 1>>, char_edit_distance |-> Len(g.text), y_delta |-> None,
   matched |-> FALSE, error_type |-> "no_match"]

\* Faulty variant of CountType: the rows of the other types are counted.
CountTypeOther(rs, et) == Cardinality({k \in 1..Len(rs) : rs[k].error_type # et})

CountType(rs, et) == Cardinality({k \in 1..Len(rs) : rs[k].error_type = et})

SummaryOf(gl, ol, ml, ca, la, td, tc, rs) ==
  [gen_lines |-> Len(gl), orig_lines |-> Len(ol), matched_lines |-> ml,
   char_accuracy |-> Round4(ca), line_accuracy |-> Round4(la),
   total_char_diffs |-> td, total_chars |-> tc,
   error_breakdown |-> [matches |-> CountType(rs, "match"),
                        mismatches |-> CountType(rs, "mismatch"),
                        no_matches |-> CountType(rs, "no_match")]]

\* No helper function is being called on its own.
NoCall ==
  /\ arg_a = <<>>
  /\ arg_b = <<>>
  /\ arg_c = <<>>
  /\ ret = <<>>
  /\ ret2 = <<>>
  /\ fpc = "idle"

Init ==
  /\ orig_lines \in Extracted(OrigPool, MaxOrigLines)
  /\ gen_lines \in Extracted(GenPool, MaxGenLines)
  /\ pc = "extracted"
  /\ i = 0
  /\ score = None
  /\ o = 0
  /\ rows = <<>>
  /\ total_chars = 0
  /\ total_diff_chars = 0
  /\ matched_lines = 0
  /\ char_accuracy = None
  /\ line_accuracy = None
  /\ summary = None
  /\ NoCall

\* The two normalisation loops.
NormalizeLines ==
  /\ pc = "extracted"
  /\ orig_lines' = WithNorm(orig_lines)
  /\ gen_lines' = WithNorm(gen_lines)
  /\ pc' = "loop"
  /\ UNCHANGED <<i, score, o, rows, total_chars, total_diff_chars, matched_lines,
                 char_accuracy, line_accuracy, summary, fvars>>

\* Loop head and the call `score, o = find_best_match(g, orig_lines, ...)`;
\* o is kept as the index of the returned line in orig_lines, 0 for None.
Match ==
  /\ pc = "loop"
  /\ i < Len(gen_lines)
  /\ LET best == find_best_match(gen_lines[i + 1], orig_lines, y_tolerance, page_window)
     IN /\ score' = best[1]
        /\ o' = best[2]
  /\ pc' = "matched"
  /\ UNCHANGED <<orig_lines, gen_lines, i, rows, total_chars, total_diff_chars,
                 matched_lines, char_accuracy, line_accuracy, summary, fvars>>

\* The `if o:` branch of the loop body.
MatchedRow ==
  /\ pc = "matched"
  /\ o # 0
  /\ LET g == gen_lines[i + 1]
         ol == orig_lines[o]
         ed == Levenshtein(g.text, ol.text)
         matched == IsMatched(score, similarity_threshold)
     IN /\ total_chars' = total_chars + PairChars(g.text, ol.text)
        /\ total_diff_chars' = total_diff_chars + ed
        /\ matched_lines' = IF matched THEN matched_lines + 1 ELSE matched_lines
        /\ rows' = Append(rows, MatchedRowOf(g, ol, score, ed, matched))
  /\ i' = i + 1
  /\ pc' = "loop"
  /\ UNCHANGED <<orig_lines, gen_lines, score, o, char_accuracy, line_accuracy, summary, fvars>>

\* The `else` branch of the loop body.
NoMatchRow ==
  /\ pc = "matched"
  /\ o = 0
  /\ LET g == gen_lines[i + 1]
     IN /\ rows' = Append(rows, NoMatchRowOf(g))
        /\ total_chars' = total_chars + LoneChars(g.text)
        /\ total_diff_chars' = total_diff_chars + Len(g.text)
  /\ i' = i + 1
  /\ pc' = "loop"
  /\ UNCHANGED <<orig_lines, gen_lines, score, o, matched_lines, char_accuracy,
                 line_accuracy, summary, fvars>>

\* The statements after the loop: the two accuracies and the summary.
Summarize ==
  /\ pc = "loop"
  /\ i = Len(gen_lines)
  /\ LET ca == CharAccuracy(total_diff_chars, total_chars)
         la == LineAccuracy(matched_lines, Len(gen_lines))
     IN /\ char_accuracy' = ca
        /\ line_accuracy' = la
        /\ summary' = SummaryOf(gen_lines, orig_lines, matched_lines, ca, la,
                                total_diff_chars, total_chars, rows)
  /\ pc' = "done"
  /\ UNCHANGED <<orig_lines, gen_lines, i, score, o, rows, total_chars,
                 total_diff_chars, matched_lines, fvars>>

Next == NormalizeLines \/ Match \/ MatchedRow \/ NoMatchRow \/ Summarize

Spec == Init /\ [][Next]_vars

-----------------------------------------------------------------------------
(* Properties of find_best_match, read off the state right after the call   *)
(* (pc = "matched"): gen_lines[i + 1] is the generated line it was called   *)
(* with, score and o are what it returned.                                   *)

Called == pc = "matched"

CurGen == gen_lines[i + 1]

OrigIdx == 1..Len(orig_lines)

\* Similarity of the current generated line to the k-th original line.
SimTo(k) == similarity_score(CurGen.norm, orig_lines[k].norm)

PageDelta(k) == Abs(orig_lines[k].page - CurGen.page)

\* The spatially admissible original lines of the current generated line.
Near == {k \in OrigIdx : /\ PageDelta(k) <= page_window
                        /\ Abs(orig_lines[k].y0 - CurGen.y0) <= y_tolerance + 5 * PageDelta(k)}

\* The set the maximum is taken over: the admissible lines, or all when none is.
Pool == IF Near # {} THEN Near ELSE OrigIdx

\* C1: when some original line is spatially admissible, the returned line is
\* admissible and its score is the maximum similarity over the admissible
\* lines, whatever the similarity of the lines outside that set.
C1_SpatialBest ==
  (Called /\ Near # {}) =>
     /\ o \in Near
     /\ score = SimTo(o)
     /\ \A k \in Near : GE(score, SimTo(k))

\* A non-admissible line scores strictly higher than the returned one.
C1_Witness ==
  /\ Called
  /\ Near # {}
  /\ o \in Near
  /\ \E k \in OrigIdx \ Near : GT(SimTo(k), score)

\* C2: when orig_lines is non-empty and no line is spatially admissible, the
\* returned line has the maximum similarity over all original lines.
C2_Fallback ==
  (Called /\ orig_lines # <<>> /\ Near = {}) =>
     /\ o \in OrigIdx
     /\ score = SimTo(o)
     /\ \A k \in OrigIdx : GE(score, SimTo(k))

\* The fallback chooses between lines of different similarity.
C2_Witness ==
  /\ Called
  /\ Near = {}
  /\ o \in OrigIdx
  /\ \E k \in OrigIdx : GT(score, SimTo(k))

\* C3: the result is (0, None) exactly when orig_lines is empty; otherwise
\* some original line is returned, also when the best score is 0.
C3_NoneIffEmpty ==
  Called =>
     /\ (score = <<0, 1>> /\ o = 0) <=> (orig_lines = <<>>)
     /\ orig_lines # <<>> => o \in OrigIdx

\* A line is returned although the best score is 0.
C3_Witness ==
  /\ Called
  /\ orig_lines # <<>>
  /\ o \in OrigIdx
  /\ score = <<0, 1>>

\* C4: among the candidates sharing the maximal score, the first in the
\* iteration order of orig_lines is returned.
C4_FirstOfTies ==
  (Called /\ orig_lines # <<>>) =>
     /\ o \in Pool
     /\ \A k \in Pool : SimTo(k) = score => o <= k

\* A later candidate ties with the returned one.
C4_Witness ==
  /\ Called
  /\ o \in Pool
  /\ \E k \in Pool : k > o /\ SimTo(k) = score

-----------------------------------------------------------------------------
(* Properties of the rows and of the summary *)

RowIdx == 1..Len(rows)

Done == pc = "done"

HasOrig(r) == r.orig_page # None

\* The row's best-match score reaches the threshold.
Reaches(r) == GEInt(r.similarity, similarity_threshold)

\* The rational x lies in [0, 1].
InUnit(x) == x[1] >= 0 /\ x[1] <= x[2]

RECURSIVE SumUpTo(_, _)
\* Sum of f[1..n].
SumUpTo(f, n) == IF n = 0 THEN 0 ELSE f[n] + SumUpTo(f, n - 1)

\* C5: in every row, error_type is "no_match" exactly when orig_page is null,
\* and then the other original fields and y_delta are null too; matched is
\* true exactly when error_type is "match".
C5_RowShape ==
  \A k \in RowIdx :
     LET r == rows[k]
     IN /\ (r.error_type = "no_match") <=> (r.orig_page = None)
        /\ r.orig_page = None =>
             (r.orig_line_no = None /\ r.orig_text = None /\ r.y_delta = None)
        /\ r.matched <=> (r.error_type = "match")
        /\ r.error_type \in {"match", "mismatch", "no_match"}

\* A run that produced no_match rows.
C5_Witness ==
  /\ Done
  /\ Len(rows) >= 2
  /\ \A k \in RowIdx : rows[k].error_type = "no_match" /\ ~rows[k].matched

\* C6: a row with an original counterpart is "match" exactly when the
\* token-sort similarity of the two normalised texts is >= the threshold
\* (75, inclusive), and "mismatch" otherwise.
C6_Classification ==
  \A k \in RowIdx :
     LET r == rows[k]
         sim == token_sort_ratio(normalize_text(r.gen_text),
                                 normalize_text(r.orig_text[1]))
     IN HasOrig(r) =>
          /\ r.similarity = sim
          /\ (r.error_type = "match") <=> (sim[1] >= 75 * sim[2])
          /\ (r.error_type = "mismatch") <=> (sim[1] < 75 * sim[2])

\* A row scoring exactly 75 is a match, although by character edit distance
\* the two raw texts are less than 75% alike.
C6_Witness ==
  \E k \in RowIdx :
     LET r == rows[k]
     IN /\ HasOrig(r)
        /\ r.similarity = <<75, 1>>
        /\ r.error_type = "match"
        /\ 4 * r.char_edit_distance > Max2(Len(r.gen_text), Len(r.orig_text[1]))

\* C7: total_diff_chars <= total_chars after every processed line, so the
\* final char_accuracy = 1 - total_diff_chars/total_chars is in [0, 1].
C7_DiffWithinChars ==
  /\ total_diff_chars <= total_chars
  /\ Done =>
       /\ InUnit(char_accuracy)
       /\ InUnit(summary.char_accuracy)
       /\ total_chars # 0 =>
            char_accuracy[1] * total_chars = (total_chars - total_diff_chars) * char_accuracy[2]

\* A run over rows with a counterpart in which every character counts as
\* wrong: the bound is attained and char_accuracy is 0.
C7_Witness ==
  /\ Done
  /\ Len(rows) >= 2
  /\ \A k \in RowIdx : HasOrig(rows[k])
  /\ total_diff_chars = total_chars
  /\ char_accuracy = <<0, 1>>

RowChars(r) ==
  IF HasOrig(r) THEN Max2(Max2(Len(r.gen_text), Len(r.orig_text[1])), 1)
  ELSE Max2(Len(r.gen_text), 1)

RowDiff(r) ==
  IF HasOrig(r) THEN Levenshtein(r.gen_text, r.orig_text[1]) ELSE Len(r.gen_text)

\* C8: the totals are the per-row sums: total_chars of max(len gen, len orig, 1)
\* (max(len gen, 1) for no_match rows), total_char_diffs of the Levenshtein
\* distance of the raw texts (len gen for no_match rows), and each row's
\* char_edit_distance is its own contribution.
C8_TotalsAreRowSums ==
  /\ total_chars = SumUpTo([k \in RowIdx |-> RowChars(rows[k])], Len(rows))
  /\ total_diff_chars = SumUpTo([k \in RowIdx |-> rows[k].char_edit_distance], Len(rows))
  /\ \A k \in RowIdx : rows[k].char_edit_distance = RowDiff(rows[k])
  /\ Done => /\ summary.total_chars = total_chars
             /\ summary.total_char_diffs = total_diff_chars

\* A finished run with a match row and a mismatch row, both with edits, where
\* the original text is the longer one.
C8_Witness ==
  /\ Done
  /\ \E k \in RowIdx : /\ rows[k].error_type = "match"
                       /\ rows[k].char_edit_distance > 0
                       /\ Len(rows[k].orig_text[1]) > Len(rows[k].gen_text)
  /\ \E k \in RowIdx : /\ rows[k].error_type = "mismatch"
                       /\ rows[k].char_edit_distance > 0

\* Number of rows whose best-match score reaches the threshold.
ReachCount == Cardinality({k \in RowIdx : Reaches(rows[k])})

\* x is m/n rounded to four decimals: a multiple of 1/10000 within half a unit.
IsRounded4(x, m, n) ==
  /\ 10000 % x[2] = 0
  /\ 20000 * Abs(x[1] * n - m * x[2]) <= x[2] * n

\* C9 (as amended): matched_line_count counts exactly the generated lines whose
\* best-match score is >= the threshold, so 0 <= matched_line_count <=
\* gen_line_count; the computed line_accuracy is matched_line_count /
\* gen_line_count (0 without generated lines) and lies in [0, 1]; the summary
\* reports that quotient rounded to four decimals.
C9_LineAccuracy ==
  Done =>
     LET n == Len(gen_lines)
     IN /\ Len(rows) = n
        /\ matched_lines = ReachCount
        /\ summary.matched_lines = matched_lines
        /\ summary.gen_lines = n
        /\ 0 <= matched_lines /\ matched_lines <= n
        /\ n = 0 => (line_accuracy = <<0, 1>> /\ summary.line_accuracy = <<0, 1>>)
        /\ n # 0 => /\ line_accuracy[1] * n = matched_lines * line_accuracy[2]
                    /\ IsRounded4(summary.line_accuracy, matched_lines, n)
        /\ InUnit(line_accuracy)
        /\ InUnit(summary.line_accuracy)

\* One of three generated lines matched: the reported value is 0.3333.
C9_Witness ==
  /\ Done
  /\ Len(gen_lines) = 3
  /\ matched_lines = 1
  /\ summary.line_accuracy = <<3333, 10000>>

\* C9 as stated: the reported line_accuracy equals matched_line_count /
\* gen_line_count (0 without generated lines).
C9_Original ==
  Done =>
     LET n == Len(gen_lines)
     IN /\ matched_lines = ReachCount
        /\ n = 0 => summary.line_accuracy = <<0, 1>>
        /\ n # 0 => summary.line_accuracy[1] * n = matched_lines * summary.line_accuracy[2]

\* C10 (as amended): line_accuracy is 1 when there is at least one generated
\* line and every generated line's best match reaches the threshold, and 0
\* when no generated line reaches it (also when there is no generated line).
C10_AllOrNone ==
  Done =>
     /\ (rows # <<>> /\ \A k \in RowIdx : Reaches(rows[k])) =>
          (line_accuracy = <<1, 1>> /\ summary.line_accuracy = <<1, 1>>)
     /\ (\A k \in RowIdx : ~Reaches(rows[k])) =>
          (line_accuracy = <<0, 1>> /\ summary.line_accuracy = <<0, 1>>)

\* A finished run of several lines that all reach the threshold.
C10_Witness ==
  /\ Done
  /\ Len(rows) >= 2
  /\ \A k \in RowIdx : Reaches(rows[k])
  /\ summary.line_accuracy = <<1, 1>>

\* C10 as stated, for every input: 1 when every generated line reaches the
\* threshold, 0 when none does.
C10_Original ==
  Done =>
     /\ (\A k \in RowIdx : Reaches(rows[k])) => summary.line_accuracy = <<1, 1>>
     /\ (\A k \in RowIdx : ~Reaches(rows[k])) => summary.line_accuracy = <<0, 1>>

-----------------------------------------------------------------------------
(* Degenerate inputs of compare_pdfs_and_build_pairs *)

AllNoMatch == \A k \in RowIdx : rows[k].error_type = "no_match" /\ ~HasOrig(rows[k])

\* C11: an extraction that yields no line is valid input.  Without generated
\* lines the run ends with no row and both accuracies 0; without original
\* lines and with n >= 1 generated lines it ends with n rows, all "no_match",
\* and both accuracies 0.  No step of such a run fails: until the summary is
\* built some step is always possible.
C11_ZeroLines ==
  /\ ((gen_lines = <<>> \/ orig_lines = <<>>) /\ pc \in {"extracted", "loop", "matched"})
       => ENABLED Next
  /\ (Done /\ gen_lines = <<>>) =>
       /\ rows = <<>>
       /\ line_accuracy = <<0, 1>>
       /\ char_accuracy = <<0, 1>>
       /\ summary.line_accuracy = <<0, 1>>
       /\ summary.char_accuracy = <<0, 1>>
  /\ (Done /\ orig_lines = <<>> /\ Len(gen_lines) >= 1) =>
       /\ Len(rows) = Len(gen_lines)
       /\ AllNoMatch
       /\ line_accuracy = <<0, 1>>
       /\ char_accuracy = <<0, 1>>
       /\ summary.line_accuracy = <<0, 1>>
       /\ summary.char_accuracy = <<0, 1>>

\* A finished run of several generated lines against no original line.
C11_Witness ==
  /\ Done
  /\ orig_lines = <<>>
  /\ Len(gen_lines) >= 2
  /\ Len(rows) = Len(gen_lines)
  /\ char_accuracy = <<0, 1>>

-----------------------------------------------------------------------------
(* Helper functions called on their own *)

\* No comparison is running.
NoRun ==
  /\ orig_lines = <<>>
  /\ gen_lines = <<>>
  /\ pc = "idle"
  /\ i = 0
  /\ score = None
  /\ o = 0
  /\ rows = <<>>
  /\ total_chars = 0
  /\ total_diff_chars = 0
  /\ matched_lines = 0
  /\ char_accuracy = None
  /\ line_accuracy = None
  /\ summary = None

-----------------------------------------------------------------------------
(* similarity_score(a, b) and its calls with swapped and reordered arguments *)

MaxSimLen == 3

\* Texts over "a", "b" and the space.
SimTexts == SeqsUpTo({32, 97, 98}, MaxSimLen)

\* The text whose tokens are those of t in the order p (a permutation of the
\* token positions), joined by single spaces.
Reordered(t, p) ==
  LET toks == Split(t)
  IN Join([k \in 1..Len(toks) |-> toks[p[k]]])

InitSim ==
  /\ NoRun
  /\ arg_a \in SimTexts
  /\ arg_b \in SimTexts
  /\ arg_c = <<>>
  /\ ret = None
  /\ ret2 = None
  /\ fpc = "start"

\* ret = similarity_score(a, b)
SimCall ==
  /\ fpc = "start"
  /\ ret' = similarity_score(arg_a, arg_b)
  /\ fpc' = "called"
  /\ UNCHANGED <<cvars, arg_a, arg_b, arg_c, ret2>>

\* ret2 = similarity_score(b, a)
SimCallSwapped ==
  /\ fpc = "called"
  /\ ret2' = similarity_score(arg_b, arg_a)
  /\ fpc' = "swapped"
  /\ UNCHANGED <<cvars, arg_a, arg_b, arg_c, ret>>

\* ret2 = similarity_score(c, b), c a reordering of the tokens of a, for
\* non-empty normalized a and b.
SimCallReordered ==
  /\ fpc = "called"
  /\ arg_a # <<>> /\ normalize_text(arg_a) = arg_a
  /\ arg_b # <<>> /\ normalize_text(arg_b) = arg_b
  /\ \E p \in Permutations(1..Len(Split(arg_a))) :
        /\ arg_c' = Reordered(arg_a, p)
        /\ ret2' = similarity_score(Reordered(arg_a, p), arg_b)
  /\ fpc' = "reordered"
  /\ UNCHANGED <<cvars, arg_a, arg_b, ret>>

NextSim == SimCall \/ SimCallSwapped \/ SimCallReordered

SpecSim == InitSim /\ [][NextSim]_vars

SimCalled == fpc \in {"called", "swapped", "reordered"}

\* C12: similarity_score(a, b) is 100 when both arguments are empty and 0 when
\* exactly one is; the token-sort ratio is the result only when both are
\* non-empty.
C12_EmptyArguments ==
  SimCalled =>
     /\ (arg_a = <<>> /\ arg_b = <<>>) => ret = <<100, 1>>
     /\ ((arg_a = <<>>) # (arg_b = <<>>)) => ret = <<0, 1>>
     /\ (arg_a # <<>> /\ arg_b # <<>>) => ret = token_sort_ratio(arg_a, arg_b)

\* A call with an empty first and a two-token second argument.
C12_Witness ==
  /\ fpc = "called"
  /\ arg_a = <<>>
  /\ arg_b = <<97, 32, 98>>
  /\ ret = <<0, 1>>

\* C14: similarity_score(a, b) = similarity_score(b, a), empty arguments
\* included.
C14_Symmetry == fpc = "swapped" => ret2 = ret

\* Swapped calls on two different texts of different length with a score
\* strictly between 0 and 100.
C14_Witness ==
  /\ fpc = "swapped"
  /\ Len(arg_a) < Len(arg_b)
  /\ GT(ret, <<0, 1>>)
  /\ GT(<<100, 1>>, ret)
  /\ ret2 = ret

\* C15: for non-empty normalized a and b, reordering the whitespace-separated
\* tokens of a leaves similarity_score(a, b) unchanged; a text and a
\* reordering of it score 100.
C15_TokenOrder ==
  fpc = "reordered" =>
     /\ ret2 = ret
     /\ arg_b = arg_a => ret2 = <<100, 1>>

\* A reordering that changes the text, scored against the text itself.
C15_Witness ==
  /\ fpc = "reordered"
  /\ arg_c # arg_a
  /\ ret2 = ret
  /\ arg_b = arg_a

-----------------------------------------------------------------------------
(* normalize_text(a) followed by the similarity of the result to itself *)

MaxRawLen == 3

\* Raw texts over "A", "a", "b", the tab, the space and the no-break space.
RawTexts == SeqsUpTo({9, 32, 65, 97, 98, 160}, MaxRawLen)

InitNorm ==
  /\ NoRun
  /\ arg_a \in RawTexts
  /\ arg_b = <<>>
  /\ arg_c = <<>>
  /\ ret = None
  /\ ret2 = None
  /\ fpc = "start"

\* ret = normalize_text(a)
NormCall ==
  /\ fpc = "start"
  /\ ret' = normalize_text(arg_a)
  /\ fpc' = "normalized"
  /\ UNCHANGED <<cvars, arg_a, arg_b, arg_c, ret2>>

\* ret2 = similarity_score(normalize_text(a), normalize_text(a))
SelfScore ==
  /\ fpc = "normalized"
  /\ ret2' = similarity_score(ret, ret)
  /\ fpc' = "scored"
  /\ UNCHANGED <<cvars, arg_a, arg_b, arg_c, ret>>

NextNorm == NormCall \/ SelfScore

SpecNorm == InitNorm /\ [][NextNorm]_vars

\* C13: for every text a, similarity_score(normalize_text(a),
\* normalize_text(a)) is 100, also when a normalizes to the empty text; such
\* a score passes every threshold up to 100.
C13_Reflexive ==
  fpc = "scored" =>
     /\ ret2 = <<100, 1>>
     /\ \A threshold \in 0..100 : IsMatched(ret2, threshold)

\* A blank text, which normalizes to the empty text, scored against itself.
C13_Witness ==
  /\ fpc = "scored"
  /\ arg_a # <<>>
  /\ ret = <<>>
  /\ ret2 = <<100, 1>>

-----------------------------------------------------------------------------
(* difflib.SequenceMatcher(a=a_tokens, b=b_tokens).get_opcodes()             *)
(*                                                                           *)
(* Indices are Python's: positions count from 0 and a run is the half-open   *)
(* range lo..hi-1; pi and pj are the positions i in a and j in b.  No        *)
(* element is junk: isjunk is None, and the automatic junk heuristic applies *)
(* to sequences of 200 and more elements only.                               *)

\* s[lo:hi]
Slice(s, lo, hi) == SubSeq(s, lo + 1, hi)

RECURSIVE FlmInner(_, _, _, _, _, _, _, _, _)
\* The inner loop of find_longest_match over the positions pj of b with
\* b[pj] = a[pi]: j2len holds, for blo <= pj < bhi, the length of the longest
\* match ending at a[pi-1], b[pj]; newj2len the same for a[pi]; best is
\* <<besti, bestj, bestsize>> and changes only for a strictly longer match.
FlmInner(a, b, pi, pj, blo, bhi, j2len, newj2len, best) ==
  IF pj >= bhi THEN <<newj2len, best>>
  ELSE IF b[pj + 1] # a[pi + 1]
    THEN FlmInner(a, b, pi, pj + 1, blo, bhi, j2len, Append(newj2len, 0), best)
    ELSE LET k == (IF pj > blo THEN j2len[pj - blo] ELSE 0) + 1
         IN FlmInner(a, b, pi, pj + 1, blo, bhi, j2len, Append(newj2len, k),
                     IF k > best[3] THEN <<pi - k + 1, pj - k + 1, k>> ELSE best)

RECURSIVE FlmOuter(_, _, _, _, _, _, _, _)
FlmOuter(a, b, pi, ahi, blo, bhi, j2len, best) ==
  IF pi >= ahi THEN best
  ELSE LET r == FlmInner(a, b, pi, blo, blo, bhi, j2len, <<>>, best)
       IN FlmOuter(a, b, pi + 1, ahi, blo, bhi, r[1], r[2])

\* find_longest_match(alo, ahi, blo, bhi): <<pi, pj, k>>, the longest block
\* a[pi:pi+k] = b[pj:pj+k] inside the two ranges, the one starting earliest in a
\* and, among those, earliest in b.  (Without junk the extension loops after
\* the search find nothing to add.)
find_longest_match(a, b, alo, ahi, blo, bhi) ==
  FlmOuter(a, b, alo, ahi, blo, bhi, [pj \in 1..(bhi - blo) |-> 0], <<alo, blo, 0>>)

RECURSIVE MatchingBlocksIn(_, _, _, _, _, _)
\* The blocks get_matching_blocks collects for one queued range and the ranges
\* it queues in turn, in the order of the final sort.
MatchingBlocksIn(a, b, alo, ahi, blo, bhi) ==
  LET x == find_longest_match(a, b, alo, ahi, blo, bhi)
      pi == x[1]
      pj == x[2]
      k == x[3]
  IN IF k = 0 THEN <<>>
     ELSE (IF alo < pi /\ blo < pj THEN MatchingBlocksIn(a, b, alo, pi, blo, pj) ELSE <<>>)
          \o <<x>>
          \o (IF pi + k < ahi /\ pj + k < bhi
                THEN MatchingBlocksIn(a, b, pi + k, ahi, pj + k, bhi) ELSE <<>>)

RECURSIVE Collapse(_, _, _, _)
\* Adjacent blocks are merged; cur is <<i1, j1, k1>>.
Collapse(blocks, n, cur, acc) ==
  IF n > Len(blocks) THEN (IF cur[3] # 0 THEN Append(acc, cur) ELSE acc)
  ELSE LET blk == blocks[n]
       IN IF cur[1] + cur[3] = blk[1] /\ cur[2] + cur[3] = blk[2]
            THEN Collapse(blocks, n + 1, <<cur[1], cur[2], cur[3] + blk[3]>>, acc)
            ELSE Collapse(blocks, n + 1, blk,
                          IF cur[3] # 0 THEN Append(acc, cur) ELSE acc)

\* get_matching_blocks(): the merged blocks and the closing block (la, lb, 0).
get_matching_blocks(a, b) ==
  Append(Collapse(MatchingBlocksIn(a, b, 0, Len(a), 0, Len(b)), 1, <<0, 0, 0>>, <<>>),
         <<Len(a), Len(b), 0>>)

\* Faulty variant of OpTag: a two-sided gap is reported as a deletion.
OpTagNoReplace(pi, ai, pj, bj) ==
  IF pi < ai THEN "delete" ELSE IF pj < bj THEN "insert" ELSE ""

\* The tag of the gap a[pi:ai], b[pj:bj] in front of a matching block.
OpTag(pi, ai, pj, bj) ==
  IF pi < ai /\ pj < bj THEN "replace"
  ELSE IF pi < ai THEN "delete"
  ELSE IF pj < bj THEN "insert"
  ELSE ""

RECURSIVE Opcodes(_, _, _, _, _)
Opcodes(blocks, n, pi, pj, answer) ==
  IF n > Len(blocks) THEN answer
  ELSE LET ai == blocks[n][1]
           bj == blocks[n][2]
           size == blocks[n][3]
           tag == OpTag(pi, ai, pj, bj)
           gap == IF tag # ""
                    THEN Append(answer, [tag |-> tag, i1 |-> pi, i2 |-> ai, j1 |-> pj, j2 |-> bj])
                    ELSE answer
       IN Opcodes(blocks, n + 1, ai + size, bj + size,
                  IF size # 0
                    THEN Append(gap, [tag |-> "equal", i1 |-> ai, i2 |-> ai + size,
                                      j1 |-> bj, j2 |-> bj + size])
                    ELSE gap)

get_opcodes(a, b) == Opcodes(get_matching_blocks(a, b), 1, 0, 0, <<>>)

-----------------------------------------------------------------------------
(* word_level_diff_html(a, b)                                                *)
(*                                                                           *)
(* The two returned strings are sequences of code points in which the        *)
(* opening tag <span class="error X"> is the single negative number          *)
(* -ClassCode(X) and the closing tag </span> is -1.                          *)

ClassCode(cls) ==
  CASE cls = "missing-in-generated" -> 2
    [] cls = "missing-in-original" -> 3
    [] cls = "replace-generated" -> 4
    [] cls = "replace-original" -> 5
    [] cls = "deleted-from-generated" -> 6
    [] cls = "added-to-original" -> 7

\* f'<span class="error {cls}">{text}</span>'
Span(cls, text) == <<0 - ClassCode(cls)>> \o text \o <<-1>>

\* Faulty variant of OrEmpty: the placeholder is always taken.
OrEmptyAlways(text) == <<91, 101, 109, 112, 116, 121, 93>>

\* text or "[empty]"
OrEmpty(text) == IF text = <<>> THEN <<91, 101, 109, 112, 116, 121, 93>> ELSE text

\* Faulty variant of RenderStep: a deleted run is also shown on the original
\* side.
RenderStepEcho(op, a_tokens, b_tokens, outs) ==
  LET a_run == Join(Slice(a_tokens, op.i1, op.i2))
      b_run == Join(Slice(b_tokens, op.j1, op.j2))
  IN CASE op.tag = "equal" -> <<Append(outs[1], a_run), Append(outs[2], b_run)>>
       [] op.tag = "replace" ->
            <<Append(outs[1], Span("replace-generated", OrEmpty(a_run))),
              Append(outs[2], Span("replace-original", OrEmpty(b_run)))>>
       [] op.tag = "delete" ->
            <<Append(outs[1], Span("deleted-from-generated", a_run)),
              Append(outs[2], Span("deleted-from-generated", a_run))>>
       [] op.tag = "insert" ->
            <<outs[1], Append(outs[2], Span("added-to-original", b_run))>>

\* One pass of the loop over the opcodes; outs is <<a_out, b_out>>.
RenderStep(op, a_tokens, b_tokens, outs) ==
  LET a_run == Join(Slice(a_tokens, op.i1, op.i2))
      b_run == Join(Slice(b_tokens, op.j1, op.j2))
  IN CASE op.tag = "equal" -> <<Append(outs[1], a_run), Append(outs[2], b_run)>>
       [] op.tag = "replace" ->
            <<Append(outs[1], Span("replace-generated", OrEmpty(a_run))),
              Append(outs[2], Span("replace-original", OrEmpty(b_run)))>>
       [] op.tag = "delete" ->
            <<Append(outs[1], Span("deleted-from-generated", a_run)), outs[2]>>
       [] op.tag = "insert" ->
            <<outs[1], Append(outs[2], Span("added-to-original", b_run))>>

RECURSIVE RenderLoop(_, _, _, _, _)
RenderLoop(ops, n, a_tokens, b_tokens, outs) ==
  IF n > Len(ops) THEN outs
  ELSE RenderLoop(ops, n + 1, a_tokens, b_tokens,
                  RenderStep(ops[n], a_tokens, b_tokens, outs))

\* filter(None, pieces): the non-empty pieces.
FilterNone(pieces) == SelectSeq(pieces, LAMBDA piece : piece # <<>>)

\* Faulty variant of word_level_diff_html: equal texts are returned as they
\* are.
word_level_diff_html_verbatim(a, b) ==
  IF a = <<>> /\ b = <<>> THEN <<<<>>, <<>>>>
  ELSE IF a = <<>> THEN <<<<>>, Span("missing-in-generated", b)>>
  ELSE IF b = <<>> THEN <<Span("missing-in-original", a), <<>>>>
  ELSE IF a = b THEN <<a, b>>
  ELSE LET a_tokens == Split(a)
           b_tokens == Split(b)
           outs == RenderLoop(get_opcodes(a_tokens, b_tokens), 1, a_tokens, b_tokens,
                              <<<<>>, <<>>>>)
       IN <<Join(FilterNone(outs[1])), Join(FilterNone(outs[2]))>>

\* Faulty variant of word_level_diff_html: a text without counterpart is
\* re-joined from its tokens before it is wrapped.
word_level_diff_html_rejoined(a, b) ==
  IF a = <<>> /\ b = <<>> THEN <<<<>>, <<>>>>
  ELSE IF a = <<>> THEN <<<<>>, Span("missing-in-generated", Join(Split(b)))>>
  ELSE IF b = <<>> THEN <<Span("missing-in-original", Join(Split(a))), <<>>>>
  ELSE LET a_tokens == Split(a)
           b_tokens == Split(b)
           outs == RenderLoop(get_opcodes(a_tokens, b_tokens), 1, a_tokens, b_tokens,
                              <<<<>>, <<>>>>)
       IN <<Join(FilterNone(outs[1])), Join(FilterNone(outs[2]))>>

\* Returns <<the rendering of a, the rendering of b>>; a is the generated and
\* b the original text (None and "" are both <<>>).
word_level_diff_html(a, b) ==
  IF a = <<>> /\ b = <<>> THEN <<<<>>, <<>>>>
  ELSE IF a = <<>> THEN <<<<>>, Span("missing-in-generated", b)>>
  ELSE IF b = <<>> THEN <<Span("missing-in-original", a), <<>>>>
  ELSE LET a_tokens == Split(a)
           b_tokens == Split(b)
           outs == RenderLoop(get_opcodes(a_tokens, b_tokens), 1, a_tokens, b_tokens,
                              <<<<>>, <<>>>>)
       IN <<Join(FilterNone(outs[1])), Join(FilterNone(outs[2]))>>

MaxTokens == 3

\* The words "a", "b", "c", "x".
DiffWords == {<<97>>, <<98>>, <<99>>, <<120>>}

\* Texts of up to MaxTokens words separated by single spaces.
PlainTexts == {Join(toks) : toks \in SeqsUpTo(DiffWords, MaxTokens)}

RECURSIVE JoinWide(_)
\* The tokens separated by two spaces.
JoinWide(tokens) ==
  IF Len(tokens) = 1 THEN tokens[1]
  ELSE tokens[1] \o <<32, 32>> \o JoinWide(Tail(tokens))

\* A blank text and texts of several words separated by two spaces.
WideTexts ==
  {<<32>>} \cup {JoinWide(toks) : toks \in {q \in SeqsUpTo(DiffWords, MaxTokens) : Len(q) >= 2}}

\* The argument pairs: any two plain texts; a wide text with itself; a wide
\* text with the empty text.
DiffInputs ==
  (PlainTexts \X PlainTexts)
    \cup {<<t, t>> : t \in WideTexts}
    \cup {<<t, <<>>>> : t \in WideTexts}
    \cup {<<<<>>, t>> : t \in WideTexts}

InitDiff ==
  /\ NoRun
  /\ \E p \in DiffInputs : arg_a = p[1] /\ arg_b = p[2]
  /\ arg_c = <<>>
  /\ ret = None
  /\ ret2 = None
  /\ fpc = "start"

\* ret = word_level_diff_html(a, b)
DiffCall ==
  /\ fpc = "start"
  /\ ret' = word_level_diff_html(arg_a, arg_b)
  /\ fpc' = "rendered"
  /\ UNCHANGED <<cvars, arg_a, arg_b, arg_c, ret2>>

NextDiff == DiffCall

SpecDiff == InitDiff /\ [][NextDiff]_vars

-----------------------------------------------------------------------------
(* Properties of word_level_diff_html, read off the state after the call *)

Rendered == fpc = "rendered"

GenHtml == ret[1]

OrigHtml == ret[2]

ATokens == Split(arg_a)

BTokens == Split(arg_b)

RECURSIVE MarksFrom(_, _, _, _, _)
\* Scan a rendering from position k: cls is the class code of the span being
\* read (0 outside a span), cur the word being read, acc the words read so
\* far, each paired with the class code of the span around it.
MarksFrom(html, k, cls, cur, acc) ==
  LET flushed == IF cur = <<>> THEN acc ELSE Append(acc, <<cur, cls>>)
  IN IF k > Len(html) THEN flushed
     ELSE IF html[k] < -1 THEN MarksFrom(html, k + 1, 0 - html[k], <<>>, flushed)
     ELSE IF html[k] = -1 THEN MarksFrom(html, k + 1, 0, <<>>, flushed)
     ELSE IF IsSpace(html[k]) THEN MarksFrom(html, k + 1, cls, <<>>, flushed)
     ELSE MarksFrom(html, k + 1, cls, Append(cur, html[k]), acc)

\* The words of a rendering in order, each with the class code of its span.
TokenMarks(html) == MarksFrom(html, 1, 0, <<>>, <<>>)

HasMarker(html) == \E k \in 1..Len(html) : html[k] < 0

\* C16 (as amended): for every non-empty text t, diff(t, t) returns two equal
\* strings without any marker, namely the words of t joined by single spaces
\* (" ".join(t.split())); that is t itself exactly when the words of t are
\* separated by single spaces and t has no leading or trailing whitespace.
C16_IdenticalTexts ==
  (Rendered /\ arg_a # <<>> /\ arg_b = arg_a) =>
     /\ GenHtml = Join(ATokens)
     /\ OrigHtml = Join(ATokens)
     /\ ~HasMarker(GenHtml)
     /\ ~HasMarker(OrigHtml)
     /\ (GenHtml = arg_a) <=> (arg_a = Join(ATokens))

\* A text of three words separated by two spaces each, compared with itself:
\* the result is not the text.
C16_Witness ==
  /\ Rendered
  /\ arg_b = arg_a
  /\ Len(ATokens) = 3
  /\ arg_a # Join(ATokens)
  /\ GenHtml = Join(ATokens)
  /\ GenHtml # arg_a

\* C16 as stated: for every non-empty text t, diff(t, t) returns (t, t).
C16_Original ==
  (Rendered /\ arg_a # <<>> /\ arg_b = arg_a) => ret = <<arg_a, arg_a>>

\* The positions at which two word sequences of the same length differ.
Differing(A, B) == {k \in 1..Len(A) : A[k] # B[k]}

Words(A) == {A[k] : k \in 1..Len(A)}

\* The two sequences differ by substituted words at the same positions.
Substituted(A, B) == Len(A) = Len(B) /\ Differing(A, B) # {}

\* No substituted word of either side occurs in the other text.
SubstitutedWordsForeign(A, B) ==
  \A k \in Differing(A, B) : A[k] \notin Words(B) /\ B[k] \notin Words(A)

\* Both renderings mark exactly the substituted words, as replaced.
MarkedAsReplaced(A, B) ==
  LET gm == TokenMarks(GenHtml)
      om == TokenMarks(OrigHtml)
  IN /\ Len(gm) = Len(A)
     /\ Len(om) = Len(B)
     /\ \A k \in 1..Len(A) :
          /\ gm[k] = <<A[k], IF k \in Differing(A, B)
                                THEN ClassCode("replace-generated") ELSE 0>>
          /\ om[k] = <<B[k], IF k \in Differing(A, B)
                                THEN ClassCode("replace-original") ELSE 0>>

\* C17 (as amended): when the two token sequences differ by substituted words
\* at the same positions and no substituted word occurs in the other text,
\* the generated side wraps exactly the substituted generated words in the
\* replace-generated marker, the original side wraps exactly the substituted
\* original words in the replace-original marker, and every other word is
\* unmarked on both sides.
C17_ReplaceRuns ==
  (Rendered /\ Substituted(ATokens, BTokens)
            /\ SubstitutedWordsForeign(ATokens, BTokens)) =>
     MarkedAsReplaced(ATokens, BTokens)

\* "a b c" against "a x c".
C17_Witness ==
  /\ Rendered
  /\ arg_a = <<97, 32, 98, 32, 99>>
  /\ arg_b = <<97, 32, 120, 32, 99>>
  /\ GenHtml = <<97, 32>> \o Span("replace-generated", <<98>>) \o <<32, 99>>
  /\ OrigHtml = <<97, 32>> \o Span("replace-original", <<120>>) \o <<32, 99>>

\* C17 as stated: whenever the two token sequences differ by substituted words
\* at the same positions.
C17_Original ==
  (Rendered /\ Substituted(ATokens, BTokens)) => MarkedAsReplaced(ATokens, BTokens)

\* C18: diff("", "") is ("", ""); with only the generated text empty the
\* result is ("", the original text wrapped whole in the missing-in-generated
\* marker); with only the original text empty it is (the generated text
\* wrapped whole in the missing-in-original marker, ""); an empty side is
\* returned empty.
C18_EmptyInputs ==
  Rendered =>
     /\ (arg_a = <<>> /\ arg_b = <<>>) => ret = <<<<>>, <<>>>>
     /\ (arg_a = <<>> /\ arg_b # <<>>) =>
          ret = <<<<>>, <<0 - ClassCode("missing-in-generated")>> \o arg_b \o <<-1>>>>
     /\ (arg_a # <<>> /\ arg_b = <<>>) =>
          ret = <<<<0 - ClassCode("missing-in-original")>> \o arg_a \o <<-1>>, <<>>>>
     /\ arg_a = <<>> => GenHtml = <<>>
     /\ arg_b = <<>> => OrigHtml = <<>>

\* An original text with wide gaps and no generated text: the wrapped text
\* keeps its gaps.
C18_Witness ==
  /\ Rendered
  /\ arg_a = <<>>
  /\ Len(BTokens) >= 2
  /\ arg_b # Join(BTokens)
  /\ GenHtml = <<>>
  /\ SubSeq(OrigHtml, 2, Len(OrigHtml) - 1) = arg_b

\* The start of the gap in front of the n-th matching block: the end of the
\* block before it.
GapStart(blocks, n) ==
  IF n = 1 THEN <<0, 0>>
  ELSE <<blocks[n - 1][1] + blocks[n - 1][3], blocks[n - 1][2] + blocks[n - 1][3]>>

\* Position p (from 0) of the generated words lies in a gap between two
\* consecutive matching blocks that holds no original word.
GenOnly(blocks, p) ==
  \E n \in 1..Len(blocks) :
     /\ GapStart(blocks, n)[1] <= p
     /\ p < blocks[n][1]
     /\ GapStart(blocks, n)[2] = blocks[n][2]

\* Position p (from 0) of the original words lies in a gap that holds no
\* generated word.
OrigOnly(blocks, p) ==
  \E n \in 1..Len(blocks) :
     /\ GapStart(blocks, n)[2] <= p
     /\ p < blocks[n][2]
     /\ GapStart(blocks, n)[1] = blocks[n][1]

\* C19: for two non-empty texts, a run of words that the alignment finds only
\* in the generated text is wrapped in the deleted-from-generated marker on
\* the generated side and adds nothing to the original side; a run found only
\* in the original text is wrapped in the added-to-original marker on the
\* original side and adds nothing to the generated side.  Each side holds
\* exactly the words of its own text.
C19_DeleteInsertRuns ==
  (Rendered /\ arg_a # <<>> /\ arg_b # <<>>) =>
     LET gm == TokenMarks(GenHtml)
         om == TokenMarks(OrigHtml)
         A == ATokens
         B == BTokens
         blocks == get_matching_blocks(A, B)
     IN /\ Len(gm) = Len(A)
        /\ Len(om) = Len(B)
        /\ \A k \in 1..Len(gm) :
             /\ gm[k][1] = A[k]
             /\ (gm[k][2] = ClassCode("deleted-from-generated")) <=> GenOnly(blocks, k - 1)
             /\ gm[k][2] # ClassCode("added-to-original")
        /\ \A k \in 1..Len(om) :
             /\ om[k][1] = B[k]
             /\ (om[k][2] = ClassCode("added-to-original")) <=> OrigOnly(blocks, k - 1)
             /\ om[k][2] # ClassCode("deleted-from-generated")

\* "a b c" against "c x": the run "a b" is deleted, the run "x" is added.
C19_Witness ==
  /\ Rendered
  /\ arg_a = <<97, 32, 98, 32, 99>>
  /\ arg_b = <<99, 32, 120>>
  /\ GenHtml = Span("deleted-from-generated", <<97, 32, 98>>) \o <<32, 99>>
  /\ OrigHtml = <<99, 32>> \o Span("added-to-original", <<120>>)

-----------------------------------------------------------------------------
(* pdf_content_accuracy, from the two word lists extract_pdf_words returned *)

\* Faulty variant of LowerWords: the words keep their case.
KeepCase(words) == words

\* [w.lower() for w in words]
LowerWords(words) == [k \in 1..Len(words) |-> LowerStr(words[k])]

RECURSIVE Bump(_, _)
\* counter[word] += 1; a Counter is the sequence of its <<word, count>> items
\* in the order of first occurrence.
Bump(counter, word) ==
  IF counter = <<>> THEN <<<<word, 1>>>>
  ELSE IF counter[1][1] = word THEN <<<<word, counter[1][2] + 1>>>> \o Tail(counter)
  ELSE <<counter[1]>> \o Bump(Tail(counter), word)

RECURSIVE CounterFrom(_, _, _)
CounterFrom(words, k, counter) ==
  IF k > Len(words) THEN counter
  ELSE CounterFrom(words, k + 1, Bump(counter, words[k]))

\* Counter(words)
Counter(words) == CounterFrom(words, 1, <<>>)

RECURSIVE CounterGet(_, _)
\* counter.get(word, 0)
CounterGet(counter, word) ==
  IF counter = <<>> THEN 0
  ELSE IF counter[1][1] = word THEN counter[1][2]
  ELSE CounterGet(Tail(counter), word)

RECURSIVE SumValues(_)
\* sum(counter.values())
SumValues(counter) ==
  IF counter = <<>> THEN 0 ELSE counter[1][2] + SumValues(Tail(counter))

\* [word] * n
Repeat(word, n) == [k \in 1..n |-> word]

RECURSIVE ContentLoop(_, _, _, _, _)
\* The loop over orig_counter.items(); returns <<match_count, not_found_words>>.
ContentLoop(orig_counter, n, gen_counter, match_count, not_found_words) ==
  IF n > Len(orig_counter) THEN <<match_count, not_found_words>>
  ELSE LET word == orig_counter[n][1]
           count == orig_counter[n][2]
           found == Min2(count, CounterGet(gen_counter, word))
       IN ContentLoop(orig_counter, n + 1, gen_counter, match_count + found,
                      IF found < count
                        THEN not_found_words \o Repeat(word, count - found)
                        ELSE not_found_words)

\* Returns <<accuracy, match_count, total count, not_found_words>>; accuracy
\* is the exact value of (match_count / total) * 100.
pdf_content_accuracy(orig_words, gen_words) ==
  IF orig_words = <<>> THEN <<<<0, 1>>, 0, 0, <<>>>>
  ELSE LET orig_counter == Counter(LowerWords(orig_words))
           gen_counter == Counter(LowerWords(gen_words))
           looped == ContentLoop(orig_counter, 1, gen_counter, 0, <<>>)
       IN <<Ratio(100 * looped[1], SumValues(orig_counter)), looped[1],
            SumValues(orig_counter), looped[2]>>

MaxWords == 3

\* The words "A", "a", "b".
ContentWords == {<<65>>, <<97>>, <<98>>}

WordLists == SeqsUpTo(ContentWords, MaxWords)

InitContent ==
  /\ NoRun
  /\ arg_a \in WordLists
  /\ arg_b \in WordLists
  /\ arg_c = <<>>
  /\ ret = None
  /\ ret2 = None
  /\ fpc = "start"

\* ret = pdf_content_accuracy(original, generated); arg_a and arg_b are the
\* word lists of the original and of the generated document.
ContentCall ==
  /\ fpc = "start"
  /\ ret' = pdf_content_accuracy(arg_a, arg_b)
  /\ fpc' = "counted"
  /\ UNCHANGED <<cvars, arg_a, arg_b, arg_c, ret2>>

NextContent == ContentCall

SpecContent == InitContent /\ [][NextContent]_vars

Counted == fpc = "counted"

\* The number of occurrences of the lowercased word w in a word list.
Occurrences(words, w) == Cardinality({k \in 1..Len(words) : LowerStr(words[k]) = w})

\* The k-th original word is matched: it is at most the count_gen-th
\* occurrence of its lowercased word among the original words.
Covered(k) ==
  LET w == LowerStr(arg_a[k])
  IN Cardinality({n \in 1..k : LowerStr(arg_a[n]) = w}) <= Occurrences(arg_b, w)

\* sum over the distinct original words of min(count_orig, count_gen)
MinSum == Cardinality({k \in 1..Len(arg_a) : Covered(k)})

\* C20: over the lowercased word multisets, matched_count is the sum over the
\* distinct original words of min(count_orig, count_gen), total_count the
\* number of original word occurrences, missing_words holds each original
\* word count_orig - min(count_orig, count_gen) times and nothing else, and
\* percent is 100 * matched_count / total_count; an original without words
\* gives (0.0, 0, 0, []).
C20_ContentAccuracy ==
  Counted =>
     /\ arg_a = <<>> => ret = <<<<0, 1>>, 0, 0, <<>>>>
     /\ arg_a # <<>> =>
          /\ ret[2] = MinSum
          /\ ret[3] = Len(arg_a)
          /\ \A k \in 1..Len(arg_a) :
               LET w == LowerStr(arg_a[k])
                   co == Occurrences(arg_a, w)
                   cg == Occurrences(arg_b, w)
               IN Occurrences(ret[4], w) = co - Min2(co, cg)
          /\ \A k \in 1..Len(ret[4]) : \E n \in 1..Len(arg_a) : ret[4][k] = LowerStr(arg_a[n])
          /\ Len(ret[4]) = ret[3] - ret[2]
          /\ ret[1][1] * ret[3] = 100 * ret[2] * ret[1][2]

\* Original [a, A, b] against generated [a, b, b]: matched 2 of 3, missing [a],
\* 200/3 percent.
C20_Witness ==
  /\ Counted
  /\ arg_a = <<<<97>>, <<65>>, <<98>>>>
  /\ arg_b = <<<<97>>, <<98>>, <<98>>>>
  /\ ret = <<<<200, 3>>, 2, 3, <<<<97>>>>>>

-----------------------------------------------------------------------------
(* extract_pdf_words and compare_pdfs_content_only                           *)
(*                                                                           *)
(* A document is the sequence of its pages, a page the sequence of the word  *)
(* strings (w[4]) that page.get_text("words") returns for it.                *)

\* A word the extraction keeps: w[4].strip() is not empty.
Kept(word) == Strip(word) # <<>>

\* Faulty variant of PageWords: blank words are kept.
KeepAll(page_words, words) == words \o page_words

RECURSIVE PageWords(_, _)
\* words.extend([w[4] for w in page_words if w[4].strip()])
PageWords(page_words, words) ==
  IF page_words = <<>> THEN words
  ELSE PageWords(Tail(page_words),
                 IF Kept(page_words[1]) THEN Append(words, page_words[1]) ELSE words)

RECURSIVE ExtractFrom(_, _, _)
ExtractFrom(doc, pno, words) ==
  IF pno > Len(doc) THEN words
  ELSE ExtractFrom(doc, pno + 1, PageWords(doc[pno], words))

\* extract_pdf_words(pdf_path): the kept words of all pages, in order.
extract_pdf_words(doc) == ExtractFrom(doc, 1, <<>>)

\* text1 == text2
compare_pdfs_content_only(doc1, doc2) == extract_pdf_words(doc1) = extract_pdf_words(doc2)

MaxPageWords == 2

\* The words "a" and "A" and a blank word.
PagePool == {<<97>>, <<65>>, <<32>>}

WordPages == SeqsUpTo(PagePool, MaxPageWords)

\* Documents of one or two pages.
WordDocs == {<<p>> : p \in WordPages} \cup {<<p, q>> : p \in WordPages, q \in WordPages}

InitWords ==
  /\ NoRun
  /\ arg_a \in WordDocs
  /\ arg_b \in {<<p>> : p \in WordPages}
  /\ arg_c = <<>>
  /\ ret = None
  /\ ret2 = None
  /\ fpc = "start"

\* ret = compare_pdfs_content_only(pdf1, pdf2)
WordsCall ==
  /\ fpc = "start"
  /\ ret' = compare_pdfs_content_only(arg_a, arg_b)
  /\ fpc' = "compared"
  /\ UNCHANGED <<cvars, arg_a, arg_b, arg_c, ret2>>

NextWords == WordsCall

SpecWords == InitWords /\ [][NextWords]_vars

Compared == fpc = "compared"

RECURSIVE Flat(_)
\* All word strings of a document in reading order, page boundaries dropped.
Flat(doc) == IF doc = <<>> THEN <<>> ELSE doc[1] \o Flat(Tail(doc))

\* The non-blank words of a document in reading order.
Visible(doc) == SelectSeq(Flat(doc), LAMBDA w : \E k \in 1..Len(w) : ~IsSpace(w[k]))

\* The two documents have the same multiset of lowercased non-blank words.
SameLowerBag(doc1, doc2) ==
  \A w \in {LowerStr(x) : x \in PagePool} :
     Occurrences(Visible(doc1), w) = Occurrences(Visible(doc2), w)

-----------------------------------------------------------------------------
(* Properties of normalize_text, read off the state after the call *)

Normalized == fpc \in {"normalized", "scored"}

Blank(t) == \A k \in 1..Len(t) : IsSpace(t[k])

\* C22: normalize_text(t) is the whitespace-separated tokens of t (the
\* no-break space counting as whitespace), lowercased and joined by single
\* spaces: no leading or trailing space, no two consecutive spaces, no
\* no-break space or other whitespace than the space, no uppercase letter;
\* an absent, empty or blank t gives the empty string.
C22_NormalForm ==
  Normalized =>
     /\ ret = Join(LowerWords(Split(arg_a)))
     /\ \A k \in 1..Len(ret) :
          /\ IsSpace(ret[k]) => ret[k] = 32
          /\ ~(ret[k] >= 65 /\ ret[k] <= 90)
          /\ (ret[k] = 32) => (k > 1 /\ k < Len(ret) /\ ret[k + 1] # 32)
     /\ Blank(arg_a) <=> (ret = <<>>)

\* "A<NBSP>b" becomes "a b".
C22_Witness ==
  /\ Normalized
  /\ arg_a = <<65, 160, 98>>
  /\ ret = <<97, 32, 98>>

-----------------------------------------------------------------------------
(* extract_lines_with_bbox                                                   *)
(*                                                                           *)
(* A document is the sequence of its pages, a page the sequence of the       *)
(* blocks of page.get_text("dict"), a block a record of its type and its     *)
(* lines, a line the sequence of its spans, a span a record of its text and  *)
(* of the top of its box.  Of the four box coordinates only y0, the one the  *)
(* comparison reads, is carried; the other three are computed alike.         *)

RECURSIVE SpanText(_)
\* "".join([s.get("text", "") for s in spans])
SpanText(spans) == IF spans = <<>> THEN <<>> ELSE spans[1].text \o SpanText(Tail(spans))

RECURSIVE MinY0(_)
\* min(s["bbox"][1] for s in spans), spans not empty
MinY0(spans) ==
  IF Len(spans) = 1 THEN spans[1].y0 ELSE Min2(spans[1].y0, MinY0(Tail(spans)))

RECURSIVE BlockLines(_, _, _, _)
\* The loop over the lines of a text block; returns <<line_counter, lines>>.
BlockLines(block_lines, pno, line_counter, lines) ==
  IF block_lines = <<>> THEN <<line_counter, lines>>
  ELSE LET spans == block_lines[1]
           text == Strip(SpanText(spans))
       IN IF text = <<>>
            THEN BlockLines(Tail(block_lines), pno, line_counter, lines)
            ELSE BlockLines(Tail(block_lines), pno, line_counter + 1,
                            Append(lines, [page |-> pno + 1, line_no |-> line_counter + 1,
                                           text |-> text, y0 |-> MinY0(spans)]))

RECURSIVE PageBlocks(_, _, _, _)
\* The loop over the blocks of a page; blocks of another type than 0 are
\* skipped.
PageBlocks(blocks, pno, line_counter, lines) ==
  IF blocks = <<>> THEN lines
  ELSE IF blocks[1].type # 0 THEN PageBlocks(Tail(blocks), pno, line_counter, lines)
  ELSE LET r == BlockLines(blocks[1].lines, pno, line_counter, lines)
       IN PageBlocks(Tail(blocks), pno, r[1], r[2])

RECURSIVE ExtractLoopRunning(_, _, _)
\* Faulty variant of ExtractLoop: the counter is not reset on a new page.
ExtractLoopRunning(doc, pno, lines) ==
  IF pno >= Len(doc) THEN lines
  ELSE ExtractLoopRunning(doc, pno + 1, PageBlocks(doc[pno + 1], pno, Len(lines), lines))

RECURSIVE ExtractLoop(_, _, _)
\* for pno in range(len(doc)), with line_counter = 0 on each page
ExtractLoop(doc, pno, lines) ==
  IF pno >= Len(doc) THEN lines
  ELSE ExtractLoop(doc, pno + 1, PageBlocks(doc[pno + 1], pno, 0, lines))

extract_lines_with_bbox(doc) == ExtractLoop(doc, 0, <<>>)

MaxBlockLines == 2

\* A line of the two spans " " and "a " and a line of one blank span.
LinePool ==
  {<<[text |-> <<32>>, y0 |-> 13], [text |-> <<97, 32>>, y0 |-> 12]>>,
   <<[text |-> <<32>>, y0 |-> 13]>>}

\* Text blocks of up to MaxBlockLines lines, and a block of another type.
BlockPool ==
  {[type |-> 0, lines |-> ls] : ls \in SeqsUpTo(LinePool, MaxBlockLines)}
    \cup {[type |-> 1, lines |-> <<<<[text |-> <<97>>, y0 |-> 12]>>>>]}

\* Pages of up to two blocks.
DictPages == {<<>>} \cup {<<b>> : b \in BlockPool} \cup {<<b, c>> : b \in BlockPool, c \in BlockPool}

\* Documents of one or two pages.
DictDocs == {<<p>> : p \in DictPages} \cup {<<p, q>> : p \in DictPages, q \in DictPages}

InitExtract ==
  /\ NoRun
  /\ arg_a \in DictDocs
  /\ arg_b = <<>>
  /\ arg_c = <<>>
  /\ ret = None
  /\ ret2 = None
  /\ fpc = "start"

\* ret = extract_lines_with_bbox(pdf_path)
ExtractCall ==
  /\ fpc = "start"
  /\ ret' = extract_lines_with_bbox(arg_a)
  /\ fpc' = "extracted"
  /\ UNCHANGED <<cvars, arg_a, arg_b, arg_c, ret2>>

NextExtract == ExtractCall

SpecExtract == InitExtract /\ [][NextExtract]_vars

LinesExtracted == fpc = "extracted"

\* The lines of page p (from 1) of the document that are emitted: those of
\* its text blocks whose joined span text is not blank, as <<block, line>>.
EmittedOn(p) ==
  {bl \in (1..Len(arg_a[p])) \X (1..MaxBlockLines) :
     /\ arg_a[p][bl[1]].type = 0
     /\ bl[2] <= Len(arg_a[p][bl[1]].lines)
     /\ ~Blank(SpanText(arg_a[p][bl[1]].lines[bl[2]]))}

\* C23: no emitted line has an empty text after trimming, page numbers count
\* from 1, and the lines of each page carry the indices 1, 2, ..., N in the
\* order of emission, N being the number of non-blank lines in the text
\* blocks of the page: dropped lines and other blocks use no index, the
\* numbering runs on over the blocks of a page and starts again at 1 on the
\* next page.
C23_LineNumbering ==
  LinesExtracted =>
     /\ \A k \in 1..Len(ret) :
          /\ ret[k].text # <<>>
          /\ Strip(ret[k].text) = ret[k].text
          /\ ret[k].page \in 1..Len(arg_a)
          /\ ret[k].line_no = Cardinality({n \in 1..k : ret[n].page = ret[k].page})
          /\ k > 1 => ret[k - 1].page <= ret[k].page
     /\ \A p \in 1..Len(arg_a) :
          Cardinality({k \in 1..Len(ret) : ret[k].page = p}) = Cardinality(EmittedOn(p))

\* A first page whose two text blocks hold a line, a dropped blank line and
\* another line, and a second page with a skipped block and one line.
C23_Witness ==
  /\ LinesExtracted
  /\ Len(arg_a) = 2
  /\ Len(arg_a[1]) = 2
  /\ arg_a[1][1].type = 0 /\ Len(arg_a[1][1].lines) = 2 /\ Blank(SpanText(arg_a[1][1].lines[2]))
  /\ Len(arg_a[2]) = 2
  /\ arg_a[2][1].type = 1
  /\ Len(ret) = 3
  /\ ret[2].page = 1 /\ ret[2].line_no = 2
  /\ ret[3].page = 2 /\ ret[3].line_no = 1

-----------------------------------------------------------------------------
(* The row list and the summary of compare_pdfs_and_build_pairs *)

\* The k-th row describes the k-th generated line.
Describes(k) ==
  /\ rows[k].gen_page = gen_lines[k].page
  /\ rows[k].gen_line_no = gen_lines[k].line_no
  /\ rows[k].gen_text = gen_lines[k].text

\* Row k comes before row m in the order by page and, within a page, by
\* sequence index.
RowBefore(k, m) ==
  \/ rows[k].gen_page < rows[m].gen_page
  \/ (rows[k].gen_page = rows[m].gen_page /\ rows[k].gen_line_no < rows[m].gen_line_no)

\* C25: the row list holds exactly one row per generated line, with or without
\* counterpart, none skipped or repeated: while the loop runs the rows are
\* those of the lines handled so far, and at the end the k-th row describes
\* the k-th generated line, so the rows are ordered by generated page and,
\* within a page, by generated sequence index.
C25_RowOrder ==
  /\ pc \in {"loop", "matched"} => Len(rows) = i
  /\ Done => Len(rows) = Len(gen_lines)
  /\ \A k \in RowIdx : Describes(k)
  /\ \A k \in RowIdx : \A m \in RowIdx : k < m => RowBefore(k, m)

\* A finished run over three generated lines on two pages.
C25_Witness ==
  /\ Done
  /\ Len(rows) = 3
  /\ rows[2].gen_page = 1 /\ rows[2].gen_line_no = 2
  /\ rows[3].gen_page = 3 /\ rows[3].gen_line_no = 1
  /\ HasOrig(rows[3])

\* C28: in every summary the three counts of error_breakdown add up to
\* gen_lines, which is the number of rows, and matched_lines is
\* error_breakdown.matches, the number of rows with matched = true.
C28_SummaryConsistent ==
  Done =>
     LET eb == summary.error_breakdown
     IN /\ eb.matches + eb.mismatches + eb.no_matches = summary.gen_lines
        /\ summary.gen_lines = Len(rows)
        /\ summary.matched_lines = eb.matches
        /\ eb.matches = Cardinality({k \in RowIdx : rows[k].matched})

\* A summary counting matches and mismatches.
C28_Witness ==
  /\ Done
  /\ summary.error_breakdown.matches >= 1
  /\ summary.error_breakdown.mismatches >= 1
  /\ summary.matched_lines = summary.error_breakdown.matches

\* C29: a row is "no_match" only when there is no original line, so
\* error_breakdown.no_matches is 0 for a non-empty original and gen_lines for
\* an empty one; a generated line whose best similarity against a non-empty
\* original is 0 is a "mismatch".
C29_NoMatchAllOrNothing ==
  /\ \A k \in RowIdx :
       /\ (rows[k].error_type = "no_match") <=> (orig_lines = <<>>)
       /\ (orig_lines # <<>> /\ rows[k].similarity = <<0, 1>>) =>
            (rows[k].error_type = "mismatch" /\ HasOrig(rows[k]))
  /\ Done =>
       summary.error_breakdown.no_matches =
         (IF orig_lines = <<>> THEN summary.gen_lines ELSE 0)

\* A finished run in which a line scored 0 against a non-empty original.
C29_Witness ==
  /\ Done
  /\ orig_lines # <<>>
  /\ \E k \in RowIdx : rows[k].similarity = <<0, 1>> /\ rows[k].error_type = "mismatch"
  /\ summary.error_breakdown.no_matches = 0

-----------------------------------------------------------------------------
(* The content of the two renderings of word_level_diff_html *)

\* A rendering with the opening and closing tags of its spans removed.
Unwrapped(html) == SelectSeq(html, LAMBDA c : c >= 0)

\* "[empty]" occurs in a rendering.
HasPlaceholder(html) ==
  \E k \in 1..(Len(html) - 6) : SubSeq(html, k, k + 6) = <<91, 101, 109, 112, 116, 121, 93>>

\* C30: for non-empty a and b, the generated-side rendering without its
\* markers is the whitespace tokens of a in order, joined by single spaces,
\* and the original-side rendering without its markers is the tokens of b;
\* "[empty]" occurs in no rendering.
C30_ContentPreserved ==
  Rendered =>
     /\ (arg_a # <<>> /\ arg_b # <<>>) =>
          /\ Unwrapped(GenHtml) = Join(ATokens)
          /\ Unwrapped(OrigHtml) = Join(BTokens)
     /\ ~HasPlaceholder(GenHtml)
     /\ ~HasPlaceholder(OrigHtml)

\* "b a" against "x c a": a replaced and an equal run.
C30_Witness ==
  /\ Rendered
  /\ arg_a = <<98, 32, 97>>
  /\ arg_b = <<120, 32, 99, 32, 97>>
  /\ GenHtml = Span("replace-generated", <<98>>) \o <<32, 97>>
  /\ HasMarker(OrigHtml)
  /\ Unwrapped(GenHtml) = arg_a
  /\ Unwrapped(OrigHtml) = arg_b

-----------------------------------------------------------------------------
(* upload_and_compare                                                        *)
(*                                                                           *)
(* arg_a and arg_b are the two uploads: whether the request holds the file,  *)
(* whether fitz.open can read it, and its pages.  arg_c is the set of files  *)
(* in the work directory, ret the response, ret2 the number of calls of      *)
(* extract_lines_with_bbox, fpc the position in the handler.  The comparison *)
(* itself runs through the steps of compare_pdfs_and_build_pairs above.      *)

\* Readable documents of one page with one block.
UploadDocs == {<<<<b>>>> : b \in BlockPool}

Uploads ==
  {[present |-> FALSE, ok |-> FALSE, doc |-> <<>>], [present |-> TRUE, ok |-> FALSE, doc |-> <<>>]}
    \cup {[present |-> TRUE, ok |-> TRUE, doc |-> d] : d \in UploadDocs}

\* jsonify({"error": ...}), status
ErrorResponse(status) == [status |-> status, summary |-> None, pairs |-> None]

InitUpload ==
  /\ NoRun
  /\ arg_a \in Uploads
  /\ arg_b \in Uploads
  /\ arg_c = {}
  /\ ret = None
  /\ ret2 = 0
  /\ fpc = "request"

\* A file is missing from the request: status 400, nothing is saved.
RejectRequest ==
  /\ fpc = "request"
  /\ ~arg_a.present \/ ~arg_b.present
  /\ ret' = ErrorResponse(400)
  /\ fpc' = "responded"
  /\ UNCHANGED <<cvars, arg_a, arg_b, arg_c, ret2>>

\* mkwork() and the two orig_file.save / gen_file.save
SaveUploads ==
  /\ fpc = "request"
  /\ arg_a.present /\ arg_b.present
  /\ arg_c' = {"original.pdf", "generated.pdf"}
  /\ fpc' = "saved"
  /\ UNCHANGED <<cvars, arg_a, arg_b, ret, ret2>>

\* Faulty variant of OpenOriginal: an unreadable original counts as a document
\* without lines.
OpenOriginalLenient ==
  /\ fpc = "saved"
  /\ ret2' = ret2 + 1
  /\ orig_lines' = IF arg_a.ok THEN extract_lines_with_bbox(arg_a.doc) ELSE <<>>
  /\ fpc' = "orig_extracted"
  /\ UNCHANGED <<gen_lines, pc, i, score, o, rows, total_chars, total_diff_chars,
                 matched_lines, char_accuracy, line_accuracy, summary,
                 arg_a, arg_b, arg_c, ret>>

\* orig_lines = extract_lines_with_bbox(original_pdf_path); when fitz.open
\* raises, the exception leaves compare_pdfs_and_build_pairs and is caught by
\* the handler's except clause: status 500.
OpenOriginal ==
  /\ fpc = "saved"
  /\ ret2' = ret2 + 1
  /\ IF arg_a.ok
       THEN /\ orig_lines' = extract_lines_with_bbox(arg_a.doc)
            /\ fpc' = "orig_extracted"
            /\ ret' = ret
       ELSE /\ orig_lines' = orig_lines
            /\ fpc' = "responded"
            /\ ret' = ErrorResponse(500)
  /\ UNCHANGED <<gen_lines, pc, i, score, o, rows, total_chars, total_diff_chars,
                 matched_lines, char_accuracy, line_accuracy, summary,
                 arg_a, arg_b, arg_c>>

\* gen_lines = extract_lines_with_bbox(generated_pdf_path), likewise; on
\* success the comparison starts.
OpenGenerated ==
  /\ fpc = "orig_extracted"
  /\ ret2' = ret2 + 1
  /\ IF arg_b.ok
       THEN /\ gen_lines' = extract_lines_with_bbox(arg_b.doc)
            /\ pc' = "extracted"
            /\ fpc' = "comparing"
            /\ ret' = ret
       ELSE /\ gen_lines' = gen_lines
            /\ pc' = pc
            /\ fpc' = "responded"
            /\ ret' = ErrorResponse(500)
  /\ UNCHANGED <<orig_lines, i, score, o, rows, total_chars, total_diff_chars,
                 matched_lines, char_accuracy, line_accuracy, summary,
                 arg_a, arg_b, arg_c>>

\* create_annotated_pdfs saves the two annotated copies.
Annotate ==
  /\ fpc = "comparing"
  /\ pc = "done"
  /\ arg_c' = arg_c \cup {"original_annotated.pdf", "generated_annotated.pdf"}
  /\ fpc' = "annotated"
  /\ UNCHANGED <<cvars, arg_a, arg_b, ret, ret2>>

\* create_annotated_pdfs raises: status 500.
AnnotateFails ==
  /\ fpc = "comparing"
  /\ pc = "done"
  /\ ret' = ErrorResponse(500)
  /\ fpc' = "responded"
  /\ UNCHANGED <<cvars, arg_a, arg_b, arg_c, ret2>>

\* json.dump(comparison_data, f) and df.to_csv(...)
WriteResults ==
  /\ fpc = "annotated"
  /\ arg_c' = arg_c \cup {"comparison_data.json", "comparison_results.csv"}
  /\ fpc' = "written"
  /\ UNCHANGED <<cvars, arg_a, arg_b, ret, ret2>>

\* return jsonify({... 'summary': summary, 'pairs': pairs ...})
Respond ==
  /\ fpc = "written"
  /\ ret' = [status |-> 200, summary |-> summary, pairs |-> rows]
  /\ fpc' = "responded"
  /\ UNCHANGED <<cvars, arg_a, arg_b, arg_c, ret2>>

NextUpload ==
  \/ RejectRequest \/ SaveUploads \/ OpenOriginal \/ OpenGenerated
  \/ NormalizeLines \/ Match \/ MatchedRow \/ NoMatchRow \/ Summarize
  \/ Annotate \/ AnnotateFails \/ WriteResults \/ Respond

SpecUpload == InitUpload /\ [][NextUpload]_vars

ResultFiles == {"comparison_data.json", "comparison_results.csv"}

\* Both files were uploaded and one of them cannot be read.
ExtractionFails == arg_a.present /\ arg_b.present /\ (~arg_a.ok \/ ~arg_b.ok)

\* C26: when the original or the generated document cannot be opened, the
\* comparison produces no row and no summary, each document is opened at most
\* once, and the handler answers with status 500, without summary or rows in
\* the answer and without comparison_data.json or comparison_results.csv in
\* the work directory, which are written only after a complete comparison.
C26_FailFast ==
  /\ ExtractionFails =>
       /\ rows = <<>>
       /\ summary = None
       /\ arg_c \cap ResultFiles = {}
       /\ ret2 <= (IF arg_a.ok THEN 2 ELSE 1)
       /\ fpc \in {"request", "saved", "orig_extracted", "responded"}
       /\ fpc = "responded" =>
            (ret.status = 500 /\ ret.summary = None /\ ret.pairs = None)
  /\ (arg_c \cap ResultFiles # {}) =>
       (ResultFiles \subseteq arg_c /\ arg_a.ok /\ arg_b.ok /\ pc = "done")

\* The answer to a request whose original was read and whose generated
\* document could not be opened.
C26_Witness ==
  /\ fpc = "responded"
  /\ arg_a.ok /\ arg_a.doc # <<>> /\ orig_lines # <<>>
  /\ arg_b.present /\ ~arg_b.ok
  /\ ret.status = 500
  /\ ret2 = 2
  /\ arg_c = {"original.pdf", "generated.pdf"}

-----------------------------------------------------------------------------
(* Two calls of compare_pdfs_and_build_pairs on the same documents           *)
(*                                                                           *)
(* arg_a and arg_b are the line sets the two extractions deliver for the     *)
(* documents, ret the sequence of results returned so far.  The variables of *)
(* the run keep what the previous call left in them until the next call      *)
(* assigns its own locals.                                                   *)

MaxRunLines == 2

InitTwice ==
  /\ NoRun
  /\ arg_a \in Extracted(OrigPool, MaxRunLines)
  /\ arg_b \in Extracted(GenPool, MaxRunLines)
  /\ arg_c = <<>>
  /\ ret = <<>>
  /\ ret2 = <<>>
  /\ fpc = "idle"

\* Faulty variant of StartRun: the rows and the totals are shared between the
\* calls.
StartRunShared ==
  /\ pc = "idle"
  /\ Len(ret) < 2
  /\ orig_lines' = arg_a
  /\ gen_lines' = arg_b
  /\ pc' = "extracted"
  /\ i' = 0
  /\ UNCHANGED <<score, o, rows, total_chars, total_diff_chars, matched_lines,
                 char_accuracy, line_accuracy, summary, fvars>>

\* The call: the two extractions and `rows = []`, `total_chars = 0`,
\* `total_diff_chars = 0`, `matched_lines = 0`.
StartRun ==
  /\ pc = "idle"
  /\ Len(ret) < 2
  /\ orig_lines' = arg_a
  /\ gen_lines' = arg_b
  /\ pc' = "extracted"
  /\ i' = 0
  /\ rows' = <<>>
  /\ total_chars' = 0
  /\ total_diff_chars' = 0
  /\ matched_lines' = 0
  /\ UNCHANGED <<score, o, char_accuracy, line_accuracy, summary, fvars>>

\* return df, summary, rows
ReturnRun ==
  /\ pc = "done"
  /\ ret' = Append(ret, [rows |-> rows, summary |-> summary])
  /\ pc' = "idle"
  /\ UNCHANGED <<orig_lines, gen_lines, i, score, o, rows, total_chars,
                 total_diff_chars, matched_lines, char_accuracy, line_accuracy,
                 summary, arg_a, arg_b, arg_c, ret2, fpc>>

NextTwice ==
  \/ StartRun \/ NormalizeLines \/ Match \/ MatchedRow \/ NoMatchRow
  \/ Summarize \/ ReturnRun

SpecTwice == InitTwice /\ [][NextTwice]_vars

\* The second call is under way.
SecondRun == Len(ret) = 1 /\ pc # "idle"

\* C24: the second run on the same line sets builds, row after row, the rows
\* of the first run, and returns the same rows and the same summary.
C24_Determinism ==
  /\ SecondRun =>
       /\ Len(rows) <= Len(ret[1].rows)
       /\ \A k \in 1..Len(rows) : rows[k] = ret[1].rows[k]
       /\ pc = "done" => summary = ret[1].summary
  /\ Len(ret) = 2 => ret[1] = ret[2]

\* Both runs returned, with a row above and a row below the threshold.
C24_Witness ==
  /\ Len(ret) = 2
  /\ Len(ret[2].rows) = 2
  /\ \E k \in 1..2 : ~ret[2].rows[k].matched
  /\ \E k \in 1..2 : ret[2].rows[k].matched
  /\ ret[2].summary # None

-----------------------------------------------------------------------------
(* The loop body of compare_pdfs_and_build_pairs, line by line in any order  *)
(*                                                                           *)
(* After the sequential loop has finished, the body of the loop is applied   *)
(* to the generated lines once more, one line at a time in an arbitrary      *)
(* order.  arg_a is the original line set as extracted, arg_c the order in   *)
(* which the lines were taken, ret holds per generated position what the     *)
(* body computed for it (None before), ret2 the rows and the summary put     *)
(* together from ret by position.                                            *)

InitAnyOrder ==
  /\ orig_lines \in Extracted(OrigPool, MaxRunLines)
  /\ gen_lines \in Extracted(GenPool, MaxRunLines)
  /\ pc = "extracted"
  /\ i = 0
  /\ score = None
  /\ o = 0
  /\ rows = <<>>
  /\ total_chars = 0
  /\ total_diff_chars = 0
  /\ matched_lines = 0
  /\ char_accuracy = None
  /\ line_accuracy = None
  /\ summary = None
  /\ arg_a = orig_lines
  /\ arg_b = <<>>
  /\ arg_c = <<>>
  /\ ret = [k \in 1..Len(gen_lines) |-> None]
  /\ ret2 = None
  /\ fpc = "lines"

\* One pass of the loop body for the generated line g against the originals
\* ol: the row and what the pass adds to the three totals.
LineResult(g, ol) ==
  LET best == find_best_match(g, ol, y_tolerance, page_window)
  IN IF best[2] # 0
       THEN LET b == ol[best[2]]
                ed == Levenshtein(g.text, b.text)
                matched == IsMatched(best[1], similarity_threshold)
            IN [row |-> MatchedRowOf(g, b, best[1], ed, matched),
                chars |-> PairChars(g.text, b.text),
                diff |-> ed,
                lines |-> IF matched THEN 1 ELSE 0,
                orig |-> best[2]]
       ELSE [row |-> NoMatchRowOf(g),
             chars |-> LoneChars(g.text),
             diff |-> Len(g.text),
             lines |-> 0,
             orig |-> 0]

Processed == {arg_c[k] : k \in 1..Len(arg_c)}

\* The original lines no processed generated line was paired with.
Unpaired ==
  SelectSeq(orig_lines, LAMBDA l : \A k \in Processed : ret[k][1].row.orig_text # Some(l.text)
                                      \/ ret[k][1].row.orig_line_no # Some(l.line_no)
                                      \/ ret[k][1].row.orig_page # Some(l.page))

\* Faulty variant of ProcessLine: a paired original line is consumed.
ProcessLineConsuming ==
  /\ pc = "done"
  /\ fpc = "lines"
  /\ \E k \in (1..Len(gen_lines)) \ Processed :
       /\ ret' = [ret EXCEPT ![k] = Some(LineResult(gen_lines[k], Unpaired))]
       /\ arg_c' = Append(arg_c, k)
  /\ UNCHANGED <<cvars, arg_a, arg_b, ret2, fpc>>

\* The loop body for any generated line not yet taken.
ProcessLine ==
  /\ pc = "done"
  /\ fpc = "lines"
  /\ \E k \in (1..Len(gen_lines)) \ Processed :
       /\ ret' = [ret EXCEPT ![k] = Some(LineResult(gen_lines[k], orig_lines))]
       /\ arg_c' = Append(arg_c, k)
  /\ UNCHANGED <<cvars, arg_a, arg_b, ret2, fpc>>

RECURSIVE SumOf(_, _, _)
SumOf(rs, f, n) == IF n = 0 THEN 0 ELSE SumOf(rs, f, n - 1) + rs[n][1][f]

\* The rows by generated position, and the statements after the loop on the
\* totals of all lines.
Reassemble ==
  /\ pc = "done"
  /\ fpc = "lines"
  /\ Processed = 1..Len(gen_lines)
  /\ LET n == Len(gen_lines)
         rs == [k \in 1..n |-> ret[k][1].row]
         tc == SumOf(ret, "chars", n)
         td == SumOf(ret, "diff", n)
         ml == SumOf(ret, "lines", n)
         ca == CharAccuracy(td, tc)
         la == LineAccuracy(ml, n)
     IN ret2' = [rows |-> rs,
                 summary |-> SummaryOf(gen_lines, orig_lines, ml, ca, la, td, tc, rs)]
  /\ fpc' = "reassembled"
  /\ UNCHANGED <<cvars, arg_a, arg_b, arg_c, ret>>

NextAnyOrder ==
  \/ NormalizeLines \/ Match \/ MatchedRow \/ NoMatchRow \/ Summarize
  \/ ProcessLine \/ Reassemble

SpecAnyOrder == InitAnyOrder /\ [][NextAnyOrder]_vars

\* C27: matching leaves the original line set as the normalisation made it;
\* what the loop body computes for a generated line is the row the sequential
\* loop built at its position, whichever lines were processed before it; and
\* the rows and the summary reassembled by generated position are those of the
\* sequential loop.
C27_OrderIndependent ==
  /\ pc # "extracted" => orig_lines = WithNorm(arg_a)
  /\ \A k \in Processed : ret[k][1].row = rows[k]
  /\ fpc = "reassembled" => (ret2.rows = rows /\ ret2.summary = summary)

\* Two generated lines paired with the same original line, the second one
\* processed first, while a second original line is there.
C27_Witness ==
  /\ fpc = "reassembled"
  /\ arg_c = <<2, 1>>
  /\ Len(orig_lines) = 2
  /\ ret[1][1].orig = ret[2][1].orig
  /\ ret[1][1].orig # 0
====
